---- MODULE Spec2Model ----
(***************************************************************************)
(* note.com auto-poster: the browser-driven publishing workflow of         *)
(* note_poster.py (run_post, login, post_article, _add_hashtags,           *)
(* _save_as_draft, _publish and its response observer) as a state machine. *)
(* One behaviour is one invocation of run_post for one account.            *)
(***************************************************************************)
EXTENDS Naturals, Sequences, FiniteSets

VARIABLES
    pc,                    \* position of run_post / login / post_article / _publish
    result,                \* what run_post gave: "none", "true", "false", "raised"
    as_draft,              \* argument of run_post
    ENABLE_PAID_ARTICLE,   \* config flag read by post_article and _publish
    hashtags,              \* argument of run_post: the number of hashtags in the list
    body,                  \* argument of run_post: the body, a sequence of characters
    selectors,             \* _find_element: what each candidate of the list does on the page
    cursor,                \* _find_element: index of the candidate the loop is at
    findState,             \* _find_element: "idle", "running", "returned", "raised"
    handle,                \* _find_element: 0 for None, else the candidate whose first match is returned
    mainPc,                \* position of main: "idle" when main is not followed
    accounts,              \* main: the "index" fields of the list of _get_accounts
    acc,                   \* main: position of the account loop in accounts
    no_notify,             \* main: the --no-notify flag
    article,               \* main: "none", "generated", "failed"
    np_AUTH_STATE_FILE,    \* main: note_poster.AUTH_STATE_FILE; 0 is auth_state.json, i is auth_state_i.json
    orig_auth_file,        \* main: the path saved by the loop body before it sets the account's
    files,                 \* main: for each state file path, whether the file exists
    runCalls,              \* main: the invocations of run_post, in order
    success,               \* main: the verdict of the current account: "none", "true", "false"
    history,               \* main: the records appended by add_record in this run
    results,               \* main: the list results
    all_success,           \* main: the flag all_success
    notified,              \* main: what the Discord and LINE requests did
    exitStatus,            \* main: "none", 0 or 1
    environ,               \* main: os.environ at NOTE_EMAIL and NOTE_PASSWORD, 0 for unset
    orig_email,            \* main: os.environ.get("NOTE_EMAIL") at the head of the loop body
    orig_pass,             \* main: os.environ.get("NOTE_PASSWORD") at the head of the loop body
    genPc,                 \* position of generate_article: "idle" when it is not followed
    attempt,               \* generate_article: the loop variable attempt
    requests,              \* generate_article: what each JSON-mode request gave, in order
    textRequests,          \* generate_article: number of text-mode requests
    slept,                 \* generate_article: number of waits of RETRY_WAIT_SECONDS
    imgPc,                 \* position of _insert_image: "idle" when it is not followed
    imgPage,               \* _insert_image: what the page has for each selector
    tried,                 \* _insert_image: the selectors acted on so far, in order
    enters,                \* _insert_image: number of Enter key presses
    uploads,               \* _insert_image: number of uploads of the image
    imgResult,             \* what _insert_image gave: "none", "true", "false"
    AUTH_STATE_FILE,       \* the state file: "none", "saved" (from an earlier run), "fresh"
    fileWrites,            \* number of storage_state writes in this run
    loginCalls,            \* number of invocations of login in this run
    login_success,         \* what login returned: "none", "true", "false"
    sessVerify,            \* outcome of the saved-session check: "none", "valid", "invalid"
    filled,                \* the credential fields filled by login
    browser,               \* "none", "open", "closed"
    url,                   \* page.url
    navs,                  \* the targets page.goto was called with
    screenshots,           \* the diagnostic captures taken on failure paths
    postCalls,             \* number of invocations of post_article in this run
    title_input,           \* "none", "located", "missing"
    title_set,             \* the title field has been filled
    body_input,            \* "none", "found", "missing"
    fetched,               \* the calls of fetch_image made so far, in order
    article_images,        \* the dict of fetch_images_for_article: keyword -> path
    seg,                   \* index of the body segment being typed
    para,                  \* index of the next paragraph of that segment
    typed,                 \* log of the keyboard / image events of the typing routine
    tag_input,             \* _add_hashtags: "none", "found", "missing"
    tagsInline,            \* hashtags entered by _add_hashtags
    tagLog,                \* the fill and Enter events of _add_hashtags, in order
    started,               \* which of "draft", "publish" has been started
    observer,              \* the response observer of _publish is attached
    published_via_api,     \* length of the list published_via_api
    proofAt,               \* the part of _publish in which the first proof was recorded
    netCount,              \* number of responses the page has received
    publish_button,        \* "none", "missing", "clicked", "clickfailed"
    final_button,          \* "none", "missing", "clicked", "clickfailed"
    draft_button,          \* "none", "missing", "clicked", "clickfailed"
    tagsSettings,          \* hashtags entered on the publish-settings page
    paid,                  \* outcome of _set_paid_article
    pubResult,             \* what _publish gave: "none", "true", "false", "raised"
    draftResult            \* what _save_as_draft gave: "none", "true", "false"

inputs   == <<as_draft, ENABLE_PAID_ARTICLE, hashtags, body>>
findVars == <<selectors, cursor, findState, handle>>
envVars  == <<environ, orig_email, orig_pass>>
genVars  == <<genPc, attempt, requests, textRequests, slept>>
imgVars  == <<imgPc, imgPage, tried, enters, uploads, imgResult>>
sideVars == <<genVars, imgVars>>
mainVars == <<mainPc, accounts, acc, no_notify, article, np_AUTH_STATE_FILE, orig_auth_file,
              files, runCalls, success, history, results, all_success, notified, exitStatus,
              envVars>>
sessVars == <<AUTH_STATE_FILE, fileWrites, loginCalls, login_success, sessVerify, filled>>
pageVars == <<browser, url, navs, screenshots>>
entryVars == <<postCalls, title_input, title_set, body_input, fetched, article_images,
               seg, para, typed, tag_input, tagsInline, tagLog>>
netVars  == <<observer, published_via_api, proofAt, netCount>>
pubVars  == <<started, publish_button, final_button, draft_button, tagsSettings, paid,
              pubResult, draftResult>>
vars     == <<pc, result, inputs, findVars, mainVars, sideVars, sessVars, pageVars, entryVars, netVars, pubVars>>

(***************************************************************************)
(* Bounds of the model.                                                    *)
(***************************************************************************)
MaxBody == 1
MaxTags == 6
MaxResponses == 1
MaxBlocks == 4
MaxCandidates == 3
MaxAccounts == 2
ImageElements == 3

(***************************************************************************)
(* Program constants.                                                      *)
(***************************************************************************)
ClickAttempts == 3
TagLimit == 5

(***************************************************************************)
(* URLs.  The code only tests substrings of page.url, so a URL is one of   *)
(* a few concrete strings and each test is the set of strings passing it.  *)
(***************************************************************************)
RootUrl     == "https://note.com/"
NOTE_LOGIN_URL == "https://note.com/login"
NOTE_NEW_POST_URL == "https://note.com/notes/new"
EditUrl     == "https://editor.note.com/notes/n1/edit"
SettingsUrl == "https://editor.note.com/notes/n1/publish/"
NoteUrl     == "https://note.com/user/n/n1"
URLs == {RootUrl, NOTE_LOGIN_URL, NOTE_NEW_POST_URL, EditUrl, SettingsUrl, NoteUrl}

HasLogin(u)    == u \in {NOTE_LOGIN_URL}
HasPublish(u)  == u \in {SettingsUrl}
HasNotesNew(u) == u \in {NOTE_NEW_POST_URL}
EndsWithEdit(u) == u \in {EditUrl}

Min(a, b) == IF a < b THEN a ELSE b

(***************************************************************************)
(* The body: a sequence of characters.  "a" is a character of text, "sp"   *)
(* a blank, "NL" the newline, "-" and "K" the characters of the            *)
(* paid-content delimiter.  An image marker [IMAGE:keyword] is matched by  *)
(* the pattern as a whole and is one element, "I1" or "I2".                *)
(***************************************************************************)
\* "---ここから有料---": dashes, a keyword, dashes; like the delimiter of
\* the program it starts and ends with the same character.
Delimiter == <<"-", "K", "-">>

Markers == {"I1", "I2"}

\* group(1).strip() of a marker: its keyword.
KeywordOf(m) == IF m = "I1" THEN "k1" ELSE "k2"

\* The pieces bodies are built from: those of a whole run, and those of
\* content entry on its own, where "-" and "K" are the text.
Blocks == {<<"a">>, <<"NL">>, Delimiter, <<"I1">>}
EntryBlocks == {<<"NL">>, Delimiter, <<"I1">>, <<"I2">>, <<"-">>, <<"K">>, <<"sp">>}

RECURSIVE Flatten(_)
Flatten(bs) == IF bs = <<>> THEN <<>> ELSE Head(bs) \o Flatten(Tail(bs))

BodiesOf(blocks, n) == {Flatten(bs) : bs \in UNION {[1..k -> blocks] : k \in 0..n}}

Bodies == BodiesOf(Blocks, MaxBody)
EntryBodies == BodiesOf(EntryBlocks, MaxBlocks)

\* The start of the leftmost occurrence of sep in s at or after k, 0 if
\* there is none.
RECURSIVE FindFrom(_, _, _)
FindFrom(s, sep, k) ==
    IF k + Len(sep) > Len(s) + 1 THEN 0
    ELSE IF SubSeq(s, k, k + Len(sep) - 1) = sep THEN k
    ELSE FindFrom(s, sep, k + 1)

\* The start of the leftmost occurrence of sep in s, 0 if there is none.
Find(s, sep) == FindFrom(s, sep, 1)

\* sep in s
Contains(s, sep) == Find(s, sep) > 0

\* str.split(sep): the pieces of s between the occurrences of sep, found
\* from the left without overlap.
RECURSIVE Split(_, _)
Split(s, sep) ==
    LET k == Find(s, sep)
    IN IF k = 0 THEN <<s>>
       ELSE <<SubSeq(s, 1, k-1)>> \o Split(SubSeq(s, k + Len(sep), Len(s)), sep)

\* str.replace(sep, ""): s without the occurrences of sep, found from the
\* left without overlap; the result is not searched again.
RECURSIVE Remove(_, _)
Remove(s, sep) ==
    LET k == Find(s, sep)
    IN IF k = 0 THEN s
       ELSE SubSeq(s, 1, k-1) \o Remove(SubSeq(s, k + Len(sep), Len(s)), sep)

\* Segments that hands over the paid part before the free part.
SegmentsPaidFirst(b, paidMode) ==
    IF paidMode /\ Contains(b, Delimiter)
    THEN <<Split(b, Delimiter)[2], Split(b, Delimiter)[1]>>
    ELSE <<Remove(b, Delimiter)>>

\* Segments that hands over every piece between delimiters.
SegmentsAllParts(b, paidMode) ==
    IF paidMode /\ Contains(b, Delimiter)
    THEN Split(b, Delimiter)
    ELSE <<Remove(b, Delimiter)>>

\* The texts post_article hands to _type_paragraphs, in order.
Segments(b, paidMode) ==
    IF paidMode /\ Contains(b, Delimiter)
    THEN LET body_parts == Split(b, Delimiter)
         IN <<body_parts[1], body_parts[2]>>
    ELSE <<Remove(b, Delimiter)>>

\* text.split("\n")
Paragraphs(text) == Split(text, <<"NL">>)

\* paragraph.strip(): the paragraph without its leading and trailing blanks.
RECURSIVE Strip(_)
Strip(p) ==
    IF p = <<>> THEN p
    ELSE IF Head(p) = "sp" THEN Strip(Tail(p))
    ELSE IF p[Len(p)] = "sp" THEN Strip(SubSeq(p, 1, Len(p) - 1))
    ELSE p

\* IMAGE_MARKER_PATTERN.match(stripped): the pattern matches at the start only.
IsMarker(p) == Len(p) > 0 /\ p[1] \in Markers

\* IMAGE_MARKER_PATTERN.findall(body): the keywords of the markers of the
\* body, one per occurrence, in order.
RECURSIVE Keywords(_)
Keywords(b) ==
    IF b = <<>> THEN <<>>
    ELSE (IF Head(b) \in Markers THEN <<KeywordOf(Head(b))>> ELSE <<>>) \o Keywords(Tail(b))

(***************************************************************************)
(* Initial state: run_post has been called and nothing has happened yet.   *)
(***************************************************************************)
\* No call of _find_element is being followed.
FindIdle ==
    /\ selectors = <<>>
    /\ cursor = 1
    /\ findState = "idle"
    /\ handle = 0

\* The two environment variables main puts the credentials in.
EnvKeys == {"NOTE_EMAIL", "NOTE_PASSWORD"}

\* main is not being followed.
MainIdle ==
    /\ environ = [k \in EnvKeys |-> 0]
    /\ orig_email = 0
    /\ orig_pass = 0
    /\ mainPc = "idle"
    /\ accounts = <<>>
    /\ acc = 1
    /\ no_notify = FALSE
    /\ article = "none"
    /\ np_AUTH_STATE_FILE = 0
    /\ orig_auth_file = 0
    /\ files = <<>>
    /\ runCalls = <<>>
    /\ success = "none"
    /\ history = <<>>
    /\ results = <<>>
    /\ all_success = TRUE
    /\ notified = <<>>
    /\ exitStatus = "none"

\* generate_article is not being followed.
GenIdle ==
    /\ genPc = "idle"
    /\ attempt = 1
    /\ requests = <<>>
    /\ textRequests = 0
    /\ slept = 0

\* _insert_image is not being followed.
ImageIdle ==
    /\ imgPc = "idle"
    /\ imgPage = <<>>
    /\ tried = <<>>
    /\ enters = 0
    /\ uploads = 0
    /\ imgResult = "none"

\* Nothing outside run_post and main is being followed.
SideIdle == GenIdle /\ ImageIdle

\* login has not run in this invocation.
NoLogin ==
    /\ fileWrites = 0
    /\ loginCalls = 0
    /\ login_success = "none"
    /\ filled = {}

\* Nothing of the body has been fetched or typed, no tag entered, and
\* neither _save_as_draft nor _publish has started.
NothingEntered ==
    /\ fetched = <<>>
    /\ article_images = <<>>
    /\ seg = 1
    /\ para = 1
    /\ typed = <<>>
    /\ tag_input = "none"
    /\ tagsInline = 0
    /\ tagLog = <<>>
    /\ started = {}
    /\ observer = FALSE
    /\ published_via_api = 0
    /\ proofAt = "none"
    /\ netCount = 0
    /\ publish_button = "none"
    /\ final_button = "none"
    /\ draft_button = "none"
    /\ tagsSettings = 0
    /\ paid = "none"
    /\ pubResult = "none"
    /\ draftResult = "none"

Init ==
    /\ pc = "start"
    /\ result = "none"
    /\ as_draft \in BOOLEAN
    /\ ENABLE_PAID_ARTICLE \in BOOLEAN
    /\ hashtags \in {0, MaxTags}
    /\ body \in Bodies
    /\ FindIdle
    /\ MainIdle
    /\ SideIdle
    /\ AUTH_STATE_FILE \in {"none", "saved"}
    /\ NoLogin
    /\ sessVerify = "none"
    /\ browser = "none"
    /\ url = "about:blank"
    /\ navs = {}
    /\ screenshots = {}
    /\ postCalls = 0
    /\ title_input = "none"
    /\ title_set = FALSE
    /\ body_input = "none"
    /\ NothingEntered

(***************************************************************************)
(* _safe_click: up to ClickAttempts clicks; true at the first that works.  *)
(* fails is the number of leading attempts that time out.                  *)
(***************************************************************************)
SafeClick(fails) == fails < ClickAttempts

\* The state of a button after _find_element found it and _safe_click ran.
Clicked(fails) == IF SafeClick(fails) THEN "clicked" ELSE "clickfailed"

(***************************************************************************)
(* run_post: browser launch, session reuse or login, post_article.         *)
(***************************************************************************)
\* Launch the browser, create the context (with the saved state when the
\* file exists) and the page.  This is outside the try block: when launch
\* raises there is no browser, and when new_context or new_page raises the
\* browser stays as launched.  raises is the call that raises, if any.
RunPostLaunch ==
    /\ pc = "start"
    /\ \E raises \in {"none", "launch", "new_context"} :
         /\ browser' = IF raises = "launch" THEN browser ELSE "open"
         /\ IF raises = "none" THEN pc' = "check_auth" /\ result' = result
                              ELSE pc' = "done" /\ result' = "raised"
    /\ UNCHANGED <<inputs, findVars, mainVars, sideVars, sessVars, url, navs, screenshots, entryVars, netVars, pubVars>>

\* if not AUTH_STATE_FILE.exists(): login(page), else verify the session.
RunPostCheckAuth ==
    /\ pc = "check_auth"
    /\ IF AUTH_STATE_FILE = "none"
       THEN pc' = "login_start" /\ loginCalls' = loginCalls + 1
       ELSE pc' = "verify_goto" /\ loginCalls' = loginCalls
    /\ UNCHANGED <<result, inputs, findVars, mainVars, sideVars, AUTH_STATE_FILE, fileWrites, login_success, sessVerify,
                   filled, pageVars, entryVars, netVars, pubVars>>

\* page.goto("https://note.com/")
RunPostVerifyGoto ==
    /\ pc = "verify_goto"
    /\ navs' = navs \cup {RootUrl}
    /\ \E ok \in BOOLEAN :
         IF ok THEN pc' = "verify_check" /\ url' = RootUrl
               ELSE pc' = "except" /\ url' = url
    /\ UNCHANGED <<result, inputs, findVars, mainVars, sideVars, sessVars, browser, screenshots, entryVars, netVars, pubVars>>

\* RunPostVerifyCheck that logs in again whatever the site root shows.
RunPostVerifyCheckAlwaysLogin ==
    /\ pc = "verify_check"
    /\ \E login_link \in BOOLEAN :
         sessVerify' = IF login_link THEN "invalid" ELSE "valid"
    /\ AUTH_STATE_FILE' = "none"
    /\ loginCalls' = loginCalls + 1
    /\ pc' = "login_start"
    /\ UNCHANGED <<result, inputs, findVars, mainVars, sideVars, fileWrites, login_success, filled, pageVars,
                   entryVars, netVars, pubVars>>

\* RunPostVerifyCheck that keeps the stale state file when it logs in again.
RunPostVerifyCheckNoUnlink ==
    /\ pc = "verify_check"
    /\ \E login_link \in BOOLEAN :
         IF login_link
         THEN /\ sessVerify' = "invalid"
              /\ loginCalls' = loginCalls + 1
              /\ pc' = "login_start"
         ELSE /\ sessVerify' = "valid"
              /\ loginCalls' = loginCalls
              /\ pc' = "post_goto"
    /\ postCalls' = IF pc' = "post_goto" THEN postCalls + 1 ELSE postCalls
    /\ UNCHANGED <<result, inputs, findVars, mainVars, sideVars, AUTH_STATE_FILE, fileWrites, login_success, filled,
                   pageVars, title_input, title_set, body_input, fetched, article_images, seg, para, typed,
                   tag_input, tagsInline, tagLog, netVars, pubVars>>

\* The login affordance on the site root: present -> unlink the state file
\* and call login; absent -> the session is valid, go on to post_article.
RunPostVerifyCheck ==
    /\ pc = "verify_check"
    /\ \E login_link \in BOOLEAN :
         IF login_link
         THEN /\ sessVerify' = "invalid"
              /\ AUTH_STATE_FILE' = "none"
              /\ loginCalls' = loginCalls + 1
              /\ pc' = "login_start"
         ELSE /\ sessVerify' = "valid"
              /\ AUTH_STATE_FILE' = AUTH_STATE_FILE
              /\ loginCalls' = loginCalls
              /\ pc' = "post_goto"
    /\ postCalls' = IF pc' = "post_goto" THEN postCalls + 1 ELSE postCalls
    /\ UNCHANGED <<result, inputs, findVars, mainVars, sideVars, fileWrites, login_success, filled, pageVars,
                   title_input, title_set, body_input, fetched, article_images, seg, para, typed, tag_input, tagsInline, tagLog,
                   netVars, pubVars>>

(***************************************************************************)
(* login                                                                   *)
(***************************************************************************)
\* Read the credentials (ValueError when one is missing), go to the login page.
LoginStart ==
    /\ pc = "login_start"
    /\ \E creds \in BOOLEAN, ok \in BOOLEAN :
         IF ~creds
         THEN pc' = "except" /\ navs' = navs /\ url' = url
         ELSE /\ navs' = navs \cup {NOTE_LOGIN_URL}
              /\ IF ok THEN pc' = "login_email" /\ url' = NOTE_LOGIN_URL
                       ELSE pc' = "except" /\ url' = url
    /\ UNCHANGED <<result, inputs, findVars, mainVars, sideVars, sessVars, browser, screenshots, entryVars, netVars, pubVars>>

\* LoginReturnsFalse whose result run_post does not read: it goes on to
\* post_article.
LoginReturnsFalseIgnored(shot) ==
    /\ login_success' = "false"
    /\ screenshots' = screenshots \cup shot
    /\ result' = result
    /\ pc' = "post_goto"

\* A failing return of login: run_post returns False.
LoginReturnsFalse(shot) ==
    /\ login_success' = "false"
    /\ screenshots' = screenshots \cup shot
    /\ result' = "false"
    /\ pc' = "finally"

\* Locate the email field and fill it.
LoginEmail ==
    /\ pc = "login_email"
    /\ \E found \in BOOLEAN, ok \in BOOLEAN :
         IF ~found
         THEN LoginReturnsFalse({"error_no_email_input"}) /\ filled' = filled
         ELSE /\ UNCHANGED <<login_success, screenshots, result>>
              /\ IF ok THEN pc' = "login_password" /\ filled' = filled \cup {"email"}
                       ELSE pc' = "except" /\ filled' = filled
    /\ UNCHANGED <<inputs, findVars, mainVars, sideVars, AUTH_STATE_FILE, fileWrites, loginCalls, sessVerify, browser, url,
                   navs, entryVars, netVars, pubVars>>

\* Locate the password field and fill it.
LoginPassword ==
    /\ pc = "login_password"
    /\ \E found \in BOOLEAN, ok \in BOOLEAN :
         IF ~found
         THEN LoginReturnsFalse({"error_no_password_input"}) /\ filled' = filled
         ELSE /\ UNCHANGED <<login_success, screenshots, result>>
              /\ IF ok THEN pc' = "login_submit" /\ filled' = filled \cup {"password"}
                       ELSE pc' = "except" /\ filled' = filled
    /\ UNCHANGED <<inputs, findVars, mainVars, sideVars, AUTH_STATE_FILE, fileWrites, loginCalls, sessVerify, browser, url,
                   navs, entryVars, netVars, pubVars>>

\* Locate the login button and click it (the click's outcome is not read).
LoginSubmit ==
    /\ pc = "login_submit"
    /\ \E found \in BOOLEAN :
         IF ~found
         THEN LoginReturnsFalse({"error_no_login_button"})
         ELSE pc' = "login_confirm" /\ UNCHANGED <<login_success, screenshots, result>>
    /\ UNCHANGED <<inputs, findVars, mainVars, sideVars, AUTH_STATE_FILE, fileWrites, loginCalls, sessVerify, filled,
                   browser, url, navs, entryVars, netVars, pubVars>>

\* LoginConfirm that returns True without writing the state file.
LoginConfirmNoWrite ==
    /\ pc = "login_confirm"
    /\ \E u \in URLs :
         /\ url' = u
         /\ IF HasLogin(u)
            THEN LoginReturnsFalse({}) /\ postCalls' = postCalls
            ELSE /\ login_success' = "true"
                 /\ postCalls' = postCalls + 1
                 /\ pc' = "post_goto"
                 /\ UNCHANGED <<screenshots, result>>
    /\ UNCHANGED <<inputs, findVars, mainVars, sideVars, AUTH_STATE_FILE, fileWrites, loginCalls, sessVerify, filled,
                   browser, navs, title_input, title_set, body_input, fetched, article_images, seg, para, typed,
                   tag_input, tagsInline, tagLog, netVars, pubVars>>

\* LoginConfirm that writes the state file before it looks at page.url.
LoginConfirmWritesAlways ==
    /\ pc = "login_confirm"
    /\ \E u \in URLs :
         /\ url' = u
         /\ AUTH_STATE_FILE' = "fresh"
         /\ fileWrites' = fileWrites + 1
         /\ IF HasLogin(u)
            THEN LoginReturnsFalse({}) /\ postCalls' = postCalls
            ELSE /\ login_success' = "true"
                 /\ postCalls' = postCalls + 1
                 /\ pc' = "post_goto"
                 /\ UNCHANGED <<screenshots, result>>
    /\ UNCHANGED <<inputs, findVars, mainVars, sideVars, loginCalls, sessVerify, filled, browser, navs,
                   title_input, title_set, body_input, fetched, article_images, seg, para, typed, tag_input, tagsInline, tagLog,
                   netVars, pubVars>>

\* Wait for the navigation, then decide on page.url: "login" in it -> False;
\* otherwise write the state file and return True, and run_post goes on to
\* post_article.
LoginConfirm ==
    /\ pc = "login_confirm"
    /\ \E u \in URLs :
         /\ url' = u
         /\ IF HasLogin(u)
            THEN /\ LoginReturnsFalse({})
                 /\ UNCHANGED <<AUTH_STATE_FILE, fileWrites, postCalls>>
            ELSE /\ login_success' = "true"
                 /\ AUTH_STATE_FILE' = "fresh"
                 /\ fileWrites' = fileWrites + 1
                 /\ postCalls' = postCalls + 1
                 /\ pc' = "post_goto"
                 /\ UNCHANGED <<screenshots, result>>
    /\ UNCHANGED <<inputs, findVars, mainVars, sideVars, loginCalls, sessVerify, filled, browser, navs,
                   title_input, title_set, body_input, fetched, article_images, seg, para, typed, tag_input, tagsInline, tagLog,
                   netVars, pubVars>>

\* except Exception: take the screenshot and re-raise.
RunPostExcept ==
    /\ pc = "except"
    /\ screenshots' = screenshots \cup {"error_exception"}
    /\ result' = "raised"
    /\ pc' = "finally"
    /\ UNCHANGED <<inputs, findVars, mainVars, sideVars, sessVars, browser, url, navs, entryVars, netVars, pubVars>>

\* finally: browser.close()
RunPostFinally ==
    /\ pc = "finally"
    /\ browser' = "closed"
    /\ pc' = "done"
    /\ UNCHANGED <<result, inputs, findVars, mainVars, sideVars, sessVars, url, navs, screenshots, entryVars, netVars, pubVars>>

\* main: success is what run_post returned, and False when it raised.
AccountSuccess(r) == r = "true"

(***************************************************************************)
(* post_article                                                            *)
(***************************************************************************)
\* page.goto(NOTE_NEW_POST_URL), then the optional thumbnail upload, which
\* catches its own errors and leaves nothing the later steps read.
PostGoto ==
    /\ pc = "post_goto"
    /\ navs' = navs \cup {NOTE_NEW_POST_URL}
    /\ \E ok \in BOOLEAN :
         IF ok THEN pc' = "title" /\ url' = NOTE_NEW_POST_URL
               ELSE pc' = "except" /\ url' = url
    /\ UNCHANGED <<result, inputs, findVars, mainVars, sideVars, sessVars, browser, screenshots, entryVars, netVars, pubVars>>

\* Title: the candidate chain, else the first generic editable element;
\* click and fill.  With no element at all the click times out and raises.
PostTitle ==
    /\ pc = "title"
    /\ \E found \in BOOLEAN, fallback \in BOOLEAN, ok \in BOOLEAN :
         /\ title_input' = IF found \/ fallback THEN "located" ELSE "missing"
         /\ IF (found \/ fallback) /\ ok
            THEN pc' = "body_locate" /\ title_set' = TRUE
            ELSE pc' = "except" /\ title_set' = title_set
    /\ UNCHANGED <<result, inputs, findVars, mainVars, sideVars, sessVars, pageVars, postCalls, body_input, fetched, article_images,
                   seg, para, typed, tag_input, tagsInline, tagLog, netVars, pubVars>>

\* PostBodyLocate that goes on to the body after finding no body field.
PostBodyLocateContinues ==
    /\ pc = "body_locate"
    /\ \E found \in BOOLEAN, count \in 0..2, ok \in BOOLEAN :
         /\ body_input' = IF ~found /\ count = 0 THEN "missing" ELSE "found"
         /\ pc' = IF ok THEN "fetch_images" ELSE "except"
    /\ UNCHANGED <<result, screenshots, inputs, findVars, mainVars, sideVars, sessVars, browser, url, navs, postCalls,
                   title_input, title_set, fetched, article_images, seg, para, typed,
                   tag_input, tagsInline, tagLog, netVars, pubVars>>

\* Body: the candidate chain, else the second (or the only) contenteditable;
\* none -> screenshot and return False; else click it.
PostBodyLocate ==
    /\ pc = "body_locate"
    /\ \E found \in BOOLEAN, count \in 0..2, ok \in BOOLEAN :
         IF ~found /\ count = 0
         THEN /\ body_input' = "missing"
              /\ screenshots' = screenshots \cup {"error_no_body_input"}
              /\ result' = "false"
              /\ pc' = "finally"
         ELSE /\ body_input' = "found"
              /\ pc' = IF ok THEN "fetch_images" ELSE "except"
              /\ UNCHANGED <<screenshots, result>>
    /\ UNCHANGED <<inputs, findVars, mainVars, sideVars, sessVars, browser, url, navs, postCalls, title_input, title_set, fetched, article_images,
                   seg, para, typed, tag_input, tagsInline, tagLog, netVars, pubVars>>

\* images of fetch_images_for_article after the loop over keywords: each
\* keyword maps to the path of its last occurrence.  The path of occurrence i
\* is images/article_image_{i-1}.jpg, written i.
Images(keywords) ==
    [kw \in {keywords[i] : i \in 1..Len(keywords)} |->
        CHOOSE i \in 1..Len(keywords) :
            keywords[i] = kw /\ \A j \in 1..Len(keywords) : keywords[j] = kw => j <= i]

\* The call of fetch_image for occurrence i; path 0 when the call raised.
FetchCall(keywords, i, raised) ==
    [keyword |-> keywords[i], path |-> IF raised THEN 0 ELSE i]

\* PostFetchImages that calls fetch_image for the first occurrence of a
\* keyword only.
PostFetchImagesOncePerKeyword ==
    /\ pc = "fetch_images"
    /\ LET keywords == Keywords(body)
           firsts == {i \in 1..Len(keywords) : \A j \in 1..(i-1) : keywords[j] # keywords[i]}
           first == SelectSeq([i \in 1..Len(keywords) |-> i], LAMBDA i : i \in firsts)
       IN /\ fetched' = [n \in 1..Len(first) |-> FetchCall(keywords, first[n], FALSE)]
          /\ article_images' = [kw \in {keywords[i] : i \in 1..Len(keywords)} |->
                                   CHOOSE i \in firsts : keywords[i] = kw]
          /\ pc' = "typing"
    /\ UNCHANGED <<result, inputs, findVars, mainVars, sideVars, sessVars, pageVars, postCalls, title_input, title_set,
                   body_input, seg, para, typed, tag_input, tagsInline, tagLog, netVars, pubVars>>

\* fetch_images_for_article(body): fetch_image is called for the markers of
\* the body in order; it gives a path, or its request raises and the loop
\* and post_article end with it.  raises is the call that raises, 0 for none.
PostFetchImages ==
    /\ pc = "fetch_images"
    /\ LET keywords == Keywords(body)
       IN \E raises \in 0..Len(keywords) :
            IF raises = 0
            THEN /\ fetched' = [i \in 1..Len(keywords) |-> FetchCall(keywords, i, FALSE)]
                 /\ article_images' = Images(keywords)
                 /\ pc' = "typing"
            ELSE /\ fetched' = [i \in 1..raises |-> FetchCall(keywords, i, i = raises)]
                 /\ article_images' = article_images
                 /\ pc' = "except"
    /\ UNCHANGED <<result, inputs, findVars, mainVars, sideVars, sessVars, pageVars, postCalls, title_input, title_set,
                   body_input, seg, para, typed, tag_input, tagsInline, tagLog, netVars, pubVars>>

\* One keyboard or image event of the typing routine; path is the file of an
\* image event and 0 otherwise.
Event(kind, text, path) ==
    [k |-> kind, seg |-> seg, idx |-> para, text |-> text, path |-> path]

\* _insert_image: Enter, then the three strategies in order; the one that
\* works is followed by Enter.  how is the strategy that worked, or "failed".
InsertImage(how, path) ==
    <<Event("Enter", <<>>, 0), Event("image", <<how>>, path)>>
        \o (IF how = "failed" THEN <<>> ELSE <<Event("Enter", <<>>, 0)>>)

\* TypeOne that presses Enter only after a paragraph it typed.
TypeOneNoEnterWhenEmpty(p, how) ==
    LET stripped == Strip(p)
    IN IF IsMarker(stripped)
       THEN IF KeywordOf(stripped[1]) \in DOMAIN article_images
            THEN InsertImage(how, article_images[KeywordOf(stripped[1])])
            ELSE <<>>
       ELSE IF Len(stripped) > 0 THEN <<Event("type", p, 0), Event("Enter", <<>>, 0)>>
                                 ELSE <<>>

\* One iteration of the loop of _type_paragraphs on paragraph p.
TypeOne(p, how) ==
    LET stripped == Strip(p)
    IN IF IsMarker(stripped)
       THEN IF KeywordOf(stripped[1]) \in DOMAIN article_images
            THEN InsertImage(how, article_images[KeywordOf(stripped[1])])
            ELSE <<>>
       ELSE (IF Len(stripped) > 0 THEN <<Event("type", p, 0)>> ELSE <<>>)
                \o <<Event("Enter", <<>>, 0)>>

\* The segments of this run.
BodySegments == Segments(body, ENABLE_PAID_ARTICLE)

\* NextPos that leaves a segment after its first paragraph.
NextPosFirstOnly == <<seg + 1, 1>>

\* The position after paragraph (seg, para): the next paragraph, the next
\* segment, or past the last segment.
NextPos ==
    IF para < Len(Paragraphs(BodySegments[seg]))
    THEN <<seg, para + 1>>
    ELSE <<seg + 1, 1>>

\* PostTypeParagraph in which an insertion that fails on every strategy raises.
PostTypeParagraphInsertRaises ==
    /\ pc = "typing"
    /\ seg <= Len(BodySegments)
    /\ \E how \in {"input", "plus", "toolbar", "failed"} :
         /\ typed' = typed \o TypeOne(Paragraphs(BodySegments[seg])[para], how)
         /\ IF how = "failed" /\ IsMarker(Strip(Paragraphs(BodySegments[seg])[para]))
            THEN pc' = "except" /\ seg' = seg /\ para' = para
            ELSE /\ seg' = NextPos[1]
                 /\ para' = NextPos[2]
                 /\ pc' = IF NextPos[1] > Len(BodySegments) THEN "hashtags" ELSE "typing"
    /\ UNCHANGED <<result, inputs, findVars, mainVars, sideVars, sessVars, pageVars, postCalls, title_input, title_set,
                   body_input, fetched, article_images, tag_input, tagsInline, tagLog, netVars, pubVars>>

\* _type_paragraphs, one paragraph per step, segment after segment.
PostTypeParagraph ==
    /\ pc = "typing"
    /\ seg <= Len(BodySegments)
    /\ \E how \in {"input", "plus", "toolbar", "failed"} :
         typed' = typed \o TypeOne(Paragraphs(BodySegments[seg])[para], how)
    /\ seg' = NextPos[1]
    /\ para' = NextPos[2]
    /\ pc' = IF NextPos[1] > Len(BodySegments) THEN "hashtags" ELSE "typing"
    /\ UNCHANGED <<result, inputs, findVars, mainVars, sideVars, sessVars, pageVars, postCalls, title_input, title_set, body_input,
                   fetched, article_images, tag_input, tagsInline, tagLog, netVars, pubVars>>

\* The events of the loop of _add_hashtags over the first n tags of the
\* list: tag_input.fill(tag), then Enter, tag after tag.
RECURSIVE TagEntry(_)
TagEntry(n) ==
    IF n = 0 THEN <<>>
    ELSE TagEntry(n - 1) \o <<[k |-> "fill", tag |-> n], [k |-> "Enter", tag |-> n]>>

\* PostAddHashtags whose loop goes over the whole list.
PostAddHashtagsNoLimit ==
    /\ pc = "hashtags"
    /\ \E visible \in BOOLEAN :
         IF hashtags > 0
         THEN IF visible
              THEN /\ tag_input' = "found"
                   /\ pc' = "choose"
                   /\ tagLog' = TagEntry(hashtags)
                   /\ tagsInline' = hashtags
              ELSE /\ tag_input' = "missing"
                   /\ pc' = "choose"
                   /\ UNCHANGED <<tagsInline, tagLog>>
         ELSE pc' = "choose" /\ UNCHANGED <<tag_input, tagsInline, tagLog>>
    /\ UNCHANGED <<result, inputs, findVars, mainVars, sideVars, sessVars, pageVars, postCalls, title_input, title_set, body_input,
                   fetched, article_images, seg, para, typed, netVars, pubVars>>

\* if hashtags: _add_hashtags -- the tag field is looked for; when one is
\* visible, fill and Enter for each of the first TagLimit tags; when none
\* is, nothing.  raises is the tag whose fill raises, 0 when nothing raises.
PostAddHashtags ==
    /\ pc = "hashtags"
    /\ \E visible \in BOOLEAN, raises \in 0..Min(hashtags, TagLimit) :
         IF hashtags > 0
         THEN IF visible
              THEN /\ tag_input' = "found"
                   /\ IF raises = 0
                      THEN /\ pc' = "choose"
                           /\ tagLog' = TagEntry(Min(hashtags, TagLimit))
                           /\ tagsInline' = Min(hashtags, TagLimit)
                      ELSE /\ pc' = "except"
                           /\ tagLog' = TagEntry(raises - 1)
                           /\ tagsInline' = raises - 1
              ELSE /\ tag_input' = "missing"
                   /\ pc' = "choose"
                   /\ UNCHANGED <<tagsInline, tagLog>>
         ELSE pc' = "choose" /\ UNCHANGED <<tag_input, tagsInline, tagLog>>
    /\ UNCHANGED <<result, inputs, findVars, mainVars, sideVars, sessVars, pageVars, postCalls, title_input, title_set, body_input,
                   fetched, article_images, seg, para, typed, netVars, pubVars>>

\* PostChoose that does not read as_draft and always publishes.
PostChooseAlwaysPublish ==
    /\ pc = "choose"
    /\ pc' = "pub_attach"
    /\ started' = started \cup {"publish"}
    /\ UNCHANGED <<result, inputs, findVars, mainVars, sideVars, sessVars, pageVars, entryVars, netVars,
                   publish_button, final_button, draft_button, tagsSettings, paid,
                   pubResult, draftResult>>

\* if as_draft: _save_as_draft(page) else: _publish(page, hashtags)
PostChoose ==
    /\ pc = "choose"
    /\ IF as_draft
       THEN pc' = "draft" /\ started' = started \cup {"draft"}
       ELSE pc' = "pub_attach" /\ started' = started \cup {"publish"}
    /\ UNCHANGED <<result, inputs, findVars, mainVars, sideVars, sessVars, pageVars, entryVars, netVars,
                   publish_button, final_button, draft_button, tagsSettings, paid,
                   pubResult, draftResult>>

(***************************************************************************)
(* _save_as_draft                                                          *)
(***************************************************************************)
\* The verdict of _save_as_draft: the result of _safe_click is not read.
DraftVerdict(found, fails) == IF found THEN "true" ELSE "false"

SaveAsDraft ==
    /\ pc = "draft"
    /\ \E found \in BOOLEAN, fails \in 0..ClickAttempts :
         /\ draft_button' = IF found THEN Clicked(fails) ELSE "missing"
         /\ draftResult' = DraftVerdict(found, fails)
         /\ screenshots' = IF found THEN screenshots
                                    ELSE screenshots \cup {"error_no_draft_button"}
    /\ result' = draftResult'
    /\ pc' = "finally"
    /\ UNCHANGED <<inputs, findVars, mainVars, sideVars, sessVars, browser, url, navs, entryVars, netVars,
                   started, publish_button, final_button, tagsSettings, paid, pubResult>>

(***************************************************************************)
(* _publish and its response observer                                      *)
(***************************************************************************)
Statuses == {200, 201, 204, 404}

\* A response: is its URL on note.com, does it contain "draft=false", and
\* its status.
Responses == [note : BOOLEAN, draftFalse : BOOLEAN, status : Statuses]

\* _on_response: the responses it appends to published_via_api.  (Its other
\* two lists, api_errors and all_publish_requests, are only printed.)
IsProof(r) == r.note /\ r.status \in {200, 201} /\ r.draftFalse

\* The part of _publish a position belongs to: up to the first check of
\* published_via_api, from there to the second check, and after it.
Phase(p) ==
    IF p \in {"pub_settings", "pub_check1"} THEN "settings"
    ELSE IF p \in {"pub_tags", "pub_paid", "pub_modal", "pub_final"} THEN "before_final"
    ELSE IF p = "pub_check2" THEN "after_final"
    ELSE "late"

\* The page receives a response; the handler runs only while it is attached.
\* What a step does depends on the response only through IsProof.
Respond ==
    /\ browser = "open"
    /\ pc \notin {"start", "done"}
    /\ netCount < MaxResponses
    /\ netCount' = netCount + 1
    /\ \E proof \in {IsProof(r) : r \in Responses} :
         /\ published_via_api' = IF observer /\ proof THEN published_via_api + 1
                                                      ELSE published_via_api
         /\ proofAt' = IF observer /\ proof /\ proofAt = "none" THEN Phase(pc)
                                                                ELSE proofAt
    /\ UNCHANGED <<pc, result, inputs, findVars, mainVars, sideVars, sessVars, pageVars, entryVars, observer, pubVars>>

\* PublishAttach that goes on to the settings button without registering
\* the observer.
PublishAttachLate ==
    /\ pc = "pub_attach"
    /\ pc' = "pub_settings"
    /\ UNCHANGED <<result, inputs, findVars, mainVars, sideVars, sessVars, pageVars, entryVars, netVars, pubVars>>

\* page.on("response", _on_response)
PublishAttach ==
    /\ pc = "pub_attach"
    /\ observer' = TRUE
    /\ pc' = "pub_settings"
    /\ UNCHANGED <<result, inputs, findVars, mainVars, sideVars, sessVars, pageVars, entryVars, published_via_api,
                   proofAt, netCount, pubVars>>

\* Locate the publish-settings button; when found click it and wait (bounded)
\* for the settings URL and for network idle.
PublishSettings ==
    /\ pc = "pub_settings"
    /\ \E found \in BOOLEAN, fails \in 0..ClickAttempts, navigated \in BOOLEAN :
         /\ publish_button' = IF found THEN Clicked(fails) ELSE "missing"
         /\ url' = IF found /\ SafeClick(fails) /\ navigated THEN SettingsUrl ELSE url
    /\ pc' = "pub_check1"
    /\ UNCHANGED <<result, inputs, findVars, mainVars, sideVars, sessVars, browser, navs, screenshots, entryVars, netVars,
                   started, final_button, draft_button, tagsSettings, paid, pubResult,
                   draftResult>>

\* A return of _publish with value v: the finally clause removes the observer.
PublishReturn(v) ==
    /\ pubResult' = v
    /\ result' = v
    /\ observer' = FALSE
    /\ pc' = "finally"

\* PublishRaise without the finally clause: the observer stays on the page.
PublishRaiseKeepsObserver ==
    /\ pubResult' = "raised"
    /\ result' = result
    /\ observer' = observer
    /\ pc' = "except"

\* An exception inside _publish: the finally clause removes the observer and
\* the exception reaches the handler of run_post.
PublishRaise ==
    /\ pubResult' = "raised"
    /\ result' = result
    /\ observer' = FALSE
    /\ pc' = "except"

\* PublishCheck1 that does not read published_via_api and goes on.
PublishCheck1NoReturn ==
    /\ pc = "pub_check1"
    /\ pc' = "pub_tags"
    /\ UNCHANGED <<result, inputs, findVars, mainVars, sideVars, sessVars, pageVars, entryVars, netVars, pubVars>>

\* if published_via_api: return True   (after the settings click)
PublishCheck1 ==
    /\ pc = "pub_check1"
    /\ IF published_via_api > 0
       THEN PublishReturn("true")
       ELSE pc' = "pub_tags" /\ UNCHANGED <<pubResult, result, observer>>
    /\ UNCHANGED <<inputs, findVars, mainVars, sideVars, sessVars, pageVars, entryVars, published_via_api, proofAt,
                   netCount, started, publish_button,
                   final_button, draft_button, tagsSettings, paid, draftResult>>

\* if hashtags: with a tag field on the settings page, click, clear, type and
\* Enter for each of the first TagLimit tags, then Escape.
PublishTags ==
    /\ pc = "pub_tags"
    /\ \E present \in BOOLEAN, ok \in BOOLEAN :
         IF hashtags > 0 /\ present
         THEN IF ok THEN /\ tagsSettings' = Min(hashtags, TagLimit)
                         /\ pc' = "pub_paid"
                         /\ UNCHANGED <<pubResult, result, observer>>
                    ELSE PublishRaise /\ tagsSettings' = tagsSettings
         ELSE /\ tagsSettings' = tagsSettings
              /\ pc' = "pub_paid"
              /\ UNCHANGED <<pubResult, result, observer>>
    /\ UNCHANGED <<inputs, findVars, mainVars, sideVars, sessVars, pageVars, entryVars, published_via_api, proofAt,
                   netCount, started, publish_button,
                   final_button, draft_button, paid, draftResult>>

\* _set_paid_article: what it did, from what it found.
SetPaidArticle(toggle, modal, price) ==
    IF ~toggle THEN "notoggle"
    ELSE IF modal THEN "modal_dismissed"
    ELSE IF price THEN "price_set"
    ELSE "noprice"

\* PublishPaid in which a dismissed modal ends _publish with False.
PublishPaidModalEnds ==
    /\ pc = "pub_paid"
    /\ \E toggle \in BOOLEAN, modal \in BOOLEAN, price \in BOOLEAN, ok \in BOOLEAN :
         IF ENABLE_PAID_ARTICLE
         THEN IF SetPaidArticle(toggle, modal, price) = "price_set" /\ ~ok
              THEN PublishRaise /\ paid' = paid
              ELSE /\ paid' = SetPaidArticle(toggle, modal, price)
                   /\ IF paid' = "modal_dismissed"
                      THEN PublishReturn("false")
                      ELSE pc' = "pub_modal" /\ UNCHANGED <<pubResult, result, observer>>
         ELSE /\ paid' = paid
              /\ pc' = "pub_modal"
              /\ UNCHANGED <<pubResult, result, observer>>
    /\ UNCHANGED <<inputs, findVars, mainVars, sideVars, sessVars, pageVars, entryVars, published_via_api, proofAt,
                   netCount, started, publish_button,
                   final_button, draft_button, tagsSettings, draftResult>>

\* if ENABLE_PAID_ARTICLE: _set_paid_article(page)
PublishPaid ==
    /\ pc = "pub_paid"
    /\ \E toggle \in BOOLEAN, modal \in BOOLEAN, price \in BOOLEAN, ok \in BOOLEAN :
         IF ENABLE_PAID_ARTICLE
         THEN IF SetPaidArticle(toggle, modal, price) = "price_set" /\ ~ok
              THEN PublishRaise /\ paid' = paid
              ELSE /\ paid' = SetPaidArticle(toggle, modal, price)
                   /\ pc' = "pub_modal"
                   /\ UNCHANGED <<pubResult, result, observer>>
         ELSE /\ paid' = paid
              /\ pc' = "pub_modal"
              /\ UNCHANGED <<pubResult, result, observer>>
    /\ UNCHANGED <<inputs, findVars, mainVars, sideVars, sessVars, pageVars, entryVars, published_via_api, proofAt,
                   netCount, started, publish_button,
                   final_button, draft_button, tagsSettings, draftResult>>

\* _close_identification_modal(page): Escape when the modal is there.
PublishModal ==
    /\ pc = "pub_modal"
    /\ pc' = "pub_final"
    /\ UNCHANGED <<result, inputs, findVars, mainVars, sideVars, sessVars, pageVars, entryVars, netVars, pubVars>>

\* Locate the final confirm button; when found click it (and dispatch a
\* click event), then wait (bounded) for network idle.
PublishFinal ==
    /\ pc = "pub_final"
    /\ \E found \in BOOLEAN, fails \in 0..ClickAttempts :
         final_button' = IF found THEN Clicked(fails) ELSE "missing"
    /\ pc' = "pub_check2"
    /\ UNCHANGED <<result, inputs, findVars, mainVars, sideVars, sessVars, pageVars, entryVars, netVars,
                   started, publish_button, draft_button, tagsSettings, paid, pubResult,
                   draftResult>>

\* PublishCheck2 with the recheck of published_via_api left out.
PublishCheck2NoRecheck ==
    /\ pc = "pub_check2"
    /\ pc' = "pub_wait"
    /\ UNCHANGED <<result, inputs, findVars, mainVars, sideVars, sessVars, pageVars, entryVars, netVars, pubVars>>

\* if published_via_api: return True   (after the final click)
PublishCheck2 ==
    /\ pc = "pub_check2"
    /\ IF published_via_api > 0
       THEN PublishReturn("true")
       ELSE pc' = "pub_wait" /\ UNCHANGED <<pubResult, result, observer>>
    /\ UNCHANGED <<inputs, findVars, mainVars, sideVars, sessVars, pageVars, entryVars, published_via_api, proofAt,
                   netCount, started, publish_button,
                   final_button, draft_button, tagsSettings, paid, draftResult>>

\* The predicate of the final wait_for_url.
LeftEditor(u) == ~HasPublish(u) /\ ~HasNotesNew(u)

\* PublishWait without the timeout: it ends only when the URL has left the
\* editor.
PublishWaitUnbounded ==
    /\ pc = "pub_wait"
    /\ \E u \in URLs :
         /\ url' = u
         /\ pc' = IF LeftEditor(u) THEN "pub_verdict" ELSE "pub_wait"
    /\ UNCHANGED <<result, inputs, findVars, mainVars, sideVars, sessVars, browser, navs, screenshots, entryVars, netVars,
                   pubVars>>

\* page.wait_for_url(...): it ends when the URL has left the editor, or
\* after its timeout with the URL still there.
PublishWait ==
    /\ pc = "pub_wait"
    /\ \E u \in URLs : url' = u
    /\ pc' = "pub_verdict"
    /\ UNCHANGED <<result, inputs, findVars, mainVars, sideVars, sessVars, browser, navs, screenshots, entryVars, netVars,
                   pubVars>>

\* UrlVerdict with the "/edit" test forgotten.
UrlVerdictNoEdit(u) ==
    IF HasPublish(u) \/ HasNotesNew(u) THEN "false" ELSE "true"

\* The verdict from the final URL.
UrlVerdict(u) ==
    IF HasPublish(u) \/ HasNotesNew(u) \/ EndsWithEdit(u) THEN "false" ELSE "true"

\* current_url = page.url and the URL-based return.
PublishVerdict ==
    /\ pc = "pub_verdict"
    /\ PublishReturn(UrlVerdict(url))
    /\ UNCHANGED <<inputs, findVars, mainVars, sideVars, sessVars, pageVars, entryVars, published_via_api, proofAt,
                   netCount, started, publish_button,
                   final_button, draft_button, tagsSettings, paid, draftResult>>

(***************************************************************************)
(* The specification.                                                      *)
(***************************************************************************)
Next ==
    \/ RunPostLaunch
    \/ RunPostCheckAuth
    \/ RunPostVerifyGoto
    \/ RunPostVerifyCheck
    \/ LoginStart
    \/ LoginEmail
    \/ LoginPassword
    \/ LoginSubmit
    \/ LoginConfirm
    \/ PostGoto
    \/ PostTitle
    \/ PostBodyLocate
    \/ PostFetchImages
    \/ PostTypeParagraph
    \/ PostAddHashtags
    \/ PostChoose
    \/ SaveAsDraft
    \/ PublishAttach
    \/ PublishSettings
    \/ PublishCheck1
    \/ PublishTags
    \/ PublishPaid
    \/ PublishModal
    \/ PublishFinal
    \/ PublishCheck2
    \/ PublishWait
    \/ PublishVerdict
    \/ Respond
    \/ RunPostExcept
    \/ RunPostFinally

Spec == Init /\ [][Next]_vars

(***************************************************************************)
(* run_post under the assumption that every browser wait completes or      *)
(* times out: a step that can be taken is eventually taken.  The run is    *)
(* one with hashtags and a body of one block.                              *)
(***************************************************************************)
InitTerm ==
    /\ Init
    /\ hashtags = MaxTags
    /\ body \in Blocks

SpecTerm == InitTerm /\ [][Next]_vars /\ WF_vars(Next)

(***************************************************************************)
(* _find_element on its own: one call on a list of candidate selectors.    *)
(* A candidate has no match, a hidden first match, a visible first match,  *)
(* or its evaluation throws.                                               *)
(***************************************************************************)
Outcomes == {"nomatch", "hidden", "visible", "throws"}
CandidateLists == UNION {[1..n -> Outcomes] : n \in 0..MaxCandidates}

InitFind ==
    /\ pc = "find"
    /\ result = "none"
    /\ as_draft = FALSE
    /\ ENABLE_PAID_ARTICLE = FALSE
    /\ hashtags = 0
    /\ body = <<>>
    /\ selectors \in CandidateLists
    /\ cursor = 1
    /\ findState = "running"
    /\ handle = 0
    /\ MainIdle
    /\ SideIdle
    /\ AUTH_STATE_FILE = "none"
    /\ NoLogin
    /\ sessVerify = "none"
    /\ browser = "open"
    /\ url = RootUrl
    /\ navs = {}
    /\ screenshots = {}
    /\ postCalls = 0
    /\ title_input = "none"
    /\ title_set = FALSE
    /\ body_input = "none"
    /\ NothingEntered

\* FindTry without the test of is_visible.
FindTryAnyMatch ==
    /\ findState = "running"
    /\ cursor <= Len(selectors)
    /\ IF selectors[cursor] \in {"visible", "hidden"}
       THEN findState' = "returned" /\ handle' = cursor /\ cursor' = cursor
       ELSE findState' = findState /\ handle' = handle /\ cursor' = cursor + 1
    /\ UNCHANGED <<pc, result, inputs, selectors, mainVars, sideVars, sessVars, pageVars, entryVars, netVars, pubVars>>

\* FindTry without the try / except around a candidate.
FindTryThrows ==
    /\ findState = "running"
    /\ cursor <= Len(selectors)
    /\ IF selectors[cursor] = "visible"
       THEN findState' = "returned" /\ handle' = cursor /\ cursor' = cursor
       ELSE IF selectors[cursor] = "throws"
       THEN findState' = "raised" /\ handle' = handle /\ cursor' = cursor
       ELSE findState' = findState /\ handle' = handle /\ cursor' = cursor + 1
    /\ UNCHANGED <<pc, result, inputs, selectors, mainVars, sideVars, sessVars, pageVars, entryVars, netVars, pubVars>>

\* One iteration of the loop: count() > 0 and first.is_visible() return
\* first; anything else, an exception included, goes on to the next candidate.
FindTry ==
    /\ findState = "running"
    /\ cursor <= Len(selectors)
    /\ IF selectors[cursor] = "visible"
       THEN findState' = "returned" /\ handle' = cursor /\ cursor' = cursor
       ELSE findState' = findState /\ handle' = handle /\ cursor' = cursor + 1
    /\ UNCHANGED <<pc, result, inputs, selectors, mainVars, sideVars, sessVars, pageVars, entryVars, netVars, pubVars>>

\* The loop is over: return None.
FindExhausted ==
    /\ findState = "running"
    /\ cursor > Len(selectors)
    /\ findState' = "returned"
    /\ handle' = 0
    /\ UNCHANGED <<pc, result, inputs, selectors, cursor, mainVars, sideVars, sessVars, pageVars, entryVars,
                   netVars, pubVars>>

NextFind ==
    \/ FindTry
    \/ FindExhausted

SpecFind == InitFind /\ [][NextFind]_vars

(***************************************************************************)
(* Content entry on its own: post_article from fetch_images_for_article    *)
(* to the choice between _save_as_draft and _publish, for richer bodies.   *)
(* It starts where a run that reused its saved session has filled the      *)
(* title and clicked the body field.                                       *)
(***************************************************************************)
InitEntry ==
    /\ pc = "fetch_images"
    /\ result = "none"
    /\ as_draft \in BOOLEAN
    /\ ENABLE_PAID_ARTICLE \in BOOLEAN
    /\ hashtags = 0
    /\ body \in EntryBodies
    /\ FindIdle
    /\ MainIdle
    /\ SideIdle
    /\ AUTH_STATE_FILE = "saved"
    /\ NoLogin
    /\ sessVerify = "valid"
    /\ browser = "open"
    /\ url = NOTE_NEW_POST_URL
    /\ navs = {RootUrl, NOTE_NEW_POST_URL}
    /\ screenshots = {}
    /\ postCalls = 1
    /\ title_input = "located"
    /\ title_set = TRUE
    /\ body_input = "found"
    /\ NothingEntered

NextEntry ==
    \/ PostFetchImages
    \/ PostTypeParagraph
    \/ PostAddHashtags
    \/ PostChoose
    \/ RunPostExcept
    \/ RunPostFinally

SpecEntry == InitEntry /\ [][NextEntry]_vars

(***************************************************************************)
(* The end of post_article: a body of at most one line is typed, the       *)
(* hashtags are entered, and the draft or publish procedure is chosen.     *)
(***************************************************************************)
InitTags ==
    /\ pc = "typing"
    /\ result = "none"
    /\ as_draft \in BOOLEAN
    /\ ENABLE_PAID_ARTICLE = FALSE
    /\ hashtags \in 0..MaxTags
    /\ body \in {<<>>, <<"a">>}
    /\ FindIdle
    /\ MainIdle
    /\ SideIdle
    /\ AUTH_STATE_FILE = "saved"
    /\ NoLogin
    /\ sessVerify = "valid"
    /\ browser = "open"
    /\ url = NOTE_NEW_POST_URL
    /\ navs = {RootUrl, NOTE_NEW_POST_URL}
    /\ screenshots = {}
    /\ postCalls = 1
    /\ title_input = "located"
    /\ title_set = TRUE
    /\ body_input = "found"
    /\ NothingEntered

NextTags ==
    \/ PostTypeParagraph
    \/ PostAddHashtags
    \/ PostChoose
    \/ RunPostExcept
    \/ RunPostFinally

SpecTags == InitTags /\ [][NextTags]_vars

(***************************************************************************)
(* main: article generation, the account loop, the notification and the    *)
(* exit status.  One call of run_post is one step here, with the verdict   *)
(* and the effect on the state file that a run can have.  The history file *)
(* is taken to be writable.                                                *)
(***************************************************************************)
\* _get_accounts: NOTE_EMAIL_1.. give the indices 1, 2, ...; without them
\* NOTE_EMAIL gives the single index 0; or no account at all.
AccountLists == {<<>>, <<0>>} \cup {[i \in 1..n |-> i] : n \in 1..MaxAccounts}

\* The values of NOTE_EMAIL and NOTE_PASSWORD: 0 for unset, i for the
\* credentials of account i, BaseValue for those of the .env file.
BaseValue == MaxAccounts + 1

\* The credentials of an account: the single account (index 0) has those of
\* NOTE_EMAIL and NOTE_PASSWORD themselves.
Credential(a) == IF a = 0 THEN BaseValue ELSE a

\* The paths a state file can have: auth_state.json and auth_state_i.json.
Paths == 0..MaxAccounts

InitMain ==
    /\ pc = "idle"
    /\ result = "none"
    /\ as_draft \in BOOLEAN
    /\ ENABLE_PAID_ARTICLE = FALSE
    /\ hashtags = 0
    /\ body = <<>>
    /\ FindIdle
    /\ SideIdle
    /\ mainPc = "start"
    /\ accounts \in AccountLists
    /\ acc = 1
    /\ no_notify \in BOOLEAN
    /\ article = "none"
    /\ np_AUTH_STATE_FILE = 0
    /\ orig_auth_file = 0
    /\ files \in [Paths -> BOOLEAN]
    /\ runCalls = <<>>
    /\ success = "none"
    /\ history = <<>>
    /\ results = <<>>
    /\ all_success = TRUE
    /\ notified = <<>>
    /\ exitStatus = "none"
    /\ environ \in [EnvKeys -> {0, BaseValue}]
    /\ accounts = <<0>> => environ = [k \in EnvKeys |-> BaseValue]
    /\ orig_email = 0
    /\ orig_pass = 0
    /\ AUTH_STATE_FILE = "none"
    /\ NoLogin
    /\ sessVerify = "none"
    /\ browser = "none"
    /\ url = "about:blank"
    /\ navs = {}
    /\ screenshots = {}
    /\ postCalls = 0
    /\ title_input = "none"
    /\ title_set = FALSE
    /\ body_input = "none"
    /\ NothingEntered

postVars == <<pc, result, inputs, findVars, sessVars, pageVars, entryVars, netVars, pubVars>>
runVars == <<postVars, sideVars>>

\* add_record: one record appended to the history; error is whether an
\* error text was given, at the position of the account loop (0: generation).
Record(ok, error, at) == [success |-> ok, error |-> error, at |-> at]

\* The environment check: without accounts main exits with status 1.
MainStart ==
    /\ mainPc = "start"
    /\ IF accounts = <<>>
       THEN mainPc' = "exited" /\ exitStatus' = 1
       ELSE mainPc' = "generate" /\ exitStatus' = exitStatus
    /\ UNCHANGED <<runVars, envVars, accounts, acc, no_notify, article, np_AUTH_STATE_FILE, orig_auth_file,
                   files, runCalls, success, history, results, all_success, notified>>

\* MainGenerate in which a failed generation is passed over.
MainGenerateGoesOn ==
    /\ mainPc = "generate"
    /\ \E ok \in BOOLEAN :
         /\ article' = IF ok THEN "generated" ELSE "failed"
         /\ mainPc' = "loop"
         /\ history' = history
         /\ exitStatus' = exitStatus
    /\ UNCHANGED <<runVars, envVars, accounts, acc, no_notify, np_AUTH_STATE_FILE, orig_auth_file,
                   files, runCalls, success, results, all_success, notified>>

\* Step 1: generate_article returns the article, or raises: then one failure
\* record is added and main exits with status 1.
MainGenerate ==
    /\ mainPc = "generate"
    /\ \E ok \in BOOLEAN :
         IF ok
         THEN /\ article' = "generated"
              /\ mainPc' = "loop"
              /\ history' = history
              /\ exitStatus' = exitStatus
         ELSE /\ article' = "failed"
              /\ mainPc' = "exited"
              /\ history' = Append(history, Record(FALSE, TRUE, 0))
              /\ exitStatus' = 1
    /\ UNCHANGED <<runVars, envVars, accounts, acc, no_notify, np_AUTH_STATE_FILE, orig_auth_file,
                   files, runCalls, success, results, all_success, notified>>

\* MainEnter that leaves note_poster.AUTH_STATE_FILE as it is.
MainEnterSharedFile ==
    /\ mainPc = "loop"
    /\ acc <= Len(accounts)
    /\ orig_auth_file' = np_AUTH_STATE_FILE
    /\ np_AUTH_STATE_FILE' = np_AUTH_STATE_FILE
    /\ mainPc' = "call"
    /\ orig_email' = environ["NOTE_EMAIL"]
    /\ orig_pass' = environ["NOTE_PASSWORD"]
    /\ environ' = [k \in EnvKeys |-> Credential(accounts[acc])]
    /\ UNCHANGED <<runVars, accounts, acc, no_notify, article, files, runCalls, success,
                   history, results, all_success, notified, exitStatus>>

\* The head of the loop body: the account's credentials go to the
\* environment, and an account with a non-zero index gets its own state file.
MainEnter ==
    /\ mainPc = "loop"
    /\ acc <= Len(accounts)
    /\ orig_auth_file' = np_AUTH_STATE_FILE
    /\ np_AUTH_STATE_FILE' = IF accounts[acc] # 0 THEN accounts[acc] ELSE np_AUTH_STATE_FILE
    /\ mainPc' = "call"
    /\ orig_email' = environ["NOTE_EMAIL"]
    /\ orig_pass' = environ["NOTE_PASSWORD"]
    /\ environ' = [k \in EnvKeys |-> Credential(accounts[acc])]
    /\ UNCHANGED <<runVars, accounts, acc, no_notify, article, files, runCalls, success,
                   history, results, all_success, notified, exitStatus>>

\* asyncio.run(run_post(...)): the run returns True or False, or raises.  It
\* reads, and may write or delete, the file note_poster.AUTH_STATE_FILE names;
\* a run that returns True leaves that file in place.
MainRunPost ==
    /\ mainPc = "call"
    /\ \E outcome \in {"true", "false", "raised"} :
         /\ runCalls' = Append(runCalls, [account |-> accounts[acc],
                                          file |-> np_AUTH_STATE_FILE,
                                          outcome |-> outcome])
         /\ \E exists \in (IF outcome = "true" THEN {TRUE} ELSE BOOLEAN) :
              files' = [files EXCEPT ![np_AUTH_STATE_FILE] = exists]
         /\ success' = IF outcome = "raised" THEN success ELSE outcome
         /\ mainPc' = IF outcome = "raised" THEN "except" ELSE "finally"
    /\ UNCHANGED <<runVars, envVars, accounts, acc, no_notify, article, np_AUTH_STATE_FILE, orig_auth_file,
                   history, results, all_success, notified, exitStatus>>

\* MainExcept that lets the exception of run_post end main.
MainExceptEndsLoop ==
    /\ mainPc = "except"
    /\ success' = "false"
    /\ history' = Append(history, Record(FALSE, TRUE, acc))
    /\ mainPc' = "exited"
    /\ exitStatus' = 1
    /\ UNCHANGED <<runVars, envVars, accounts, acc, no_notify, article, np_AUTH_STATE_FILE, orig_auth_file,
                   files, runCalls, results, all_success, notified>>

\* except Exception: success = False and a failure record with the error.
MainExcept ==
    /\ mainPc = "except"
    /\ success' = "false"
    /\ history' = Append(history, Record(FALSE, TRUE, acc))
    /\ mainPc' = "finally"
    /\ exitStatus' = exitStatus
    /\ UNCHANGED <<runVars, envVars, accounts, acc, no_notify, article, np_AUTH_STATE_FILE, orig_auth_file,
                   files, runCalls, results, all_success, notified>>

\* Restore that does not delete a variable that was unset before.
RestoreSetOnly(orig, current) == IF orig # 0 THEN orig ELSE current

\* The value of an environment variable after the finally clause: the
\* original one when there was one, else the variable is deleted when present.
Restore(orig, current) ==
    IF orig # 0 THEN orig
    ELSE IF current # 0 THEN 0
    ELSE current

\* finally: the environment and note_poster.AUTH_STATE_FILE are put back.
MainFinally ==
    /\ mainPc = "finally"
    /\ np_AUTH_STATE_FILE' = orig_auth_file
    /\ mainPc' = "record"
    /\ environ' = [NOTE_EMAIL |-> Restore(orig_email, environ["NOTE_EMAIL"]),
                   NOTE_PASSWORD |-> Restore(orig_pass, environ["NOTE_PASSWORD"])]
    /\ UNCHANGED <<runVars, orig_email, orig_pass, accounts, acc, no_notify, article, orig_auth_file, files, runCalls,
                   success, history, results, all_success, notified, exitStatus>>

\* After the try statement: add_record with the verdict, results.append,
\* all_success, and on to the next account.
MainRecord ==
    /\ mainPc = "record"
    /\ history' = Append(history, Record(success = "true", FALSE, acc))
    /\ results' = Append(results, success = "true")
    /\ all_success' = (all_success /\ success = "true")
    /\ acc' = acc + 1
    /\ mainPc' = "loop"
    /\ UNCHANGED <<runVars, envVars, accounts, no_notify, article, np_AUTH_STATE_FILE, orig_auth_file,
                   files, runCalls, success, notified, exitStatus>>

\* What a notification request can do: the channel is not configured, the
\* request is answered with success or with another status, or it raises.
Deliveries == {"unset", "ok", "http_error", "exception"}

\* MainNotify in which an exception of a request leaves send_notification.
MainNotifyPropagates ==
    /\ mainPc = "loop"
    /\ acc > Len(accounts)
    /\ IF no_notify
       THEN notified' = notified /\ mainPc' = "exit" /\ exitStatus' = exitStatus
       ELSE \E discord \in Deliveries, line \in Deliveries :
              /\ notified' = <<discord, line>>
              /\ IF "exception" \in {discord, line}
                 THEN mainPc' = "exited" /\ exitStatus' = 1
                 ELSE mainPc' = "exit" /\ exitStatus' = exitStatus
    /\ UNCHANGED <<runVars, envVars, accounts, acc, no_notify, article, np_AUTH_STATE_FILE, orig_auth_file,
                   files, runCalls, success, history, results, all_success>>

\* Step 5, after the loop: unless --no-notify, send_notification tries the
\* Discord and the LINE request; each catches its own exceptions and only
\* prints what happened.
MainNotify ==
    /\ mainPc = "loop"
    /\ acc > Len(accounts)
    /\ IF no_notify
       THEN notified' = notified
       ELSE \E discord \in Deliveries, line \in Deliveries : notified' = <<discord, line>>
    /\ mainPc' = "exit"
    /\ UNCHANGED <<runVars, envVars, accounts, acc, no_notify, article, np_AUTH_STATE_FILE, orig_auth_file,
                   files, runCalls, success, history, results, all_success, exitStatus>>

\* sys.exit(0 if all_success else 1)
MainExit ==
    /\ mainPc = "exit"
    /\ exitStatus' = IF all_success THEN 0 ELSE 1
    /\ mainPc' = "exited"
    /\ UNCHANGED <<runVars, envVars, accounts, acc, no_notify, article, np_AUTH_STATE_FILE, orig_auth_file,
                   files, runCalls, success, history, results, all_success, notified>>

NextMain ==
    \/ MainStart
    \/ MainGenerate
    \/ MainEnter
    \/ MainRunPost
    \/ MainExcept
    \/ MainFinally
    \/ MainRecord
    \/ MainNotify
    \/ MainExit

SpecMain == InitMain /\ [][NextMain]_vars

(***************************************************************************)
(* generate_article of article_generator.py: the request loop in JSON      *)
(* mode, the text-mode fallback and the parsing of the answer.             *)
(***************************************************************************)
MAX_RETRIES == 3

\* The exceptions a request can raise.  kind is what went wrong: the rate
\* limit, JSON mode not supported by the model, or anything else.  The code
\* reads the message only: rate is whether it contains "429", "quota" or
\* "rate", json whether it contains "json_object" or "response_format".  The
\* message of a rate-limit error carries its status 429 and that of an
\* unsupported JSON mode names the parameter; other texts are free.
Errors ==
    {e \in [kind : {"rate_limit", "json_mode", "other"}, rate : BOOLEAN, json : BOOLEAN] :
        /\ e.kind = "rate_limit" => e.rate
        /\ e.kind = "json_mode" => e.json}

\* What a JSON-mode request gives: an answer, or an exception.
Ok == [kind |-> "ok", rate |-> FALSE, json |-> FALSE]

\* The branch of the except clause taken for exception e: the tests on the
\* message in the order of the code.
HandlerBranch(e) ==
    IF e.rate THEN "retry"
    ELSE IF e.json THEN "fallback"
    ELSE "raise"

\* No part of run_post is being followed.
RunPostIdle ==
    /\ pc = "idle"
    /\ result = "none"
    /\ as_draft = FALSE
    /\ ENABLE_PAID_ARTICLE = FALSE
    /\ hashtags = 0
    /\ body = <<>>
    /\ FindIdle
    /\ AUTH_STATE_FILE = "none"
    /\ NoLogin
    /\ sessVerify = "none"
    /\ browser = "none"
    /\ url = "about:blank"
    /\ navs = {}
    /\ screenshots = {}
    /\ postCalls = 0
    /\ title_input = "none"
    /\ title_set = FALSE
    /\ body_input = "none"
    /\ NothingEntered

InitGen ==
    /\ RunPostIdle
    /\ MainIdle
    /\ ImageIdle
    /\ genPc = "start"
    /\ attempt = 1
    /\ requests = <<>>
    /\ textRequests = 0
    /\ slept = 0

\* setup_groq: ValueError without the API key; then the theme is chosen.
GenStart ==
    /\ genPc = "start"
    /\ \E key \in BOOLEAN : genPc' = IF key THEN "request" ELSE "raised"
    /\ UNCHANGED <<postVars, mainVars, imgVars, attempt, requests, textRequests, slept>>

\* One iteration of the loop: the request in JSON mode.  An answer leaves
\* the loop; an exception goes to the branch of the handler chosen by its
\* message: wait and go round again (raise on the last attempt), hand over
\* to the text-mode fallback, or raise again.
GenRequest ==
    /\ genPc = "request"
    /\ attempt <= MAX_RETRIES
    /\ \E e \in Errors \cup {Ok} :
         /\ requests' = Append(requests, e)
         /\ IF e = Ok
            THEN genPc' = "parse" /\ attempt' = attempt
            ELSE IF HandlerBranch(e) = "retry"
                 THEN IF attempt < MAX_RETRIES
                      THEN genPc' = "sleep" /\ attempt' = attempt
                      ELSE genPc' = "raised" /\ attempt' = attempt
            ELSE IF HandlerBranch(e) = "fallback"
                 THEN genPc' = "fallback" /\ attempt' = attempt
            ELSE genPc' = "raised" /\ attempt' = attempt
    /\ UNCHANGED <<postVars, mainVars, imgVars, textRequests, slept>>

\* time.sleep(RETRY_WAIT_SECONDS), then the next iteration.
GenSleep ==
    /\ genPc = "sleep"
    /\ slept' = slept + 1
    /\ attempt' = attempt + 1
    /\ genPc' = "request"
    /\ UNCHANGED <<postVars, mainVars, imgVars, requests, textRequests>>

\* _generate_article_text_mode: one request without response_format; it
\* returns the article, or raises (the request, or no title or body).
GenFallback ==
    /\ genPc = "fallback"
    /\ textRequests' = textRequests + 1
    /\ \E ok \in BOOLEAN : genPc' = IF ok THEN "returned" ELSE "raised"
    /\ UNCHANGED <<postVars, mainVars, imgVars, attempt, requests, slept>>

\* json.loads, the extraction from the text when that fails, and the test
\* for a title and a body: the article is returned, or ValueError.
GenParse ==
    /\ genPc = "parse"
    /\ \E ok \in BOOLEAN : genPc' = IF ok THEN "returned" ELSE "raised"
    /\ UNCHANGED <<postVars, mainVars, imgVars, attempt, requests, textRequests, slept>>

NextGen ==
    \/ GenStart
    \/ GenRequest
    \/ GenSleep
    \/ GenFallback
    \/ GenParse

SpecGen == InitGen /\ [][NextGen]_vars

(***************************************************************************)
(* _insert_image: Enter, then the selectors of the three strategies in     *)
(* the order of the code, until one of them uploads the image.             *)
(***************************************************************************)
\* The selectors _insert_image goes through, by strategy: two for the
\* hidden file input, seven for the add-block button, four for the toolbar
\* image button.
Candidates ==
    [i \in 1..2 |-> "input"] \o [i \in 1..7 |-> "plus"] \o [i \in 1..4 |-> "toolbar"]

\* What the page has for a selector: nothing (count() is 0, or the element
\* is not visible), an element on which the strategy raises (caught), or an
\* element through which the image is uploaded.
Finds == {"absent", "raises", "uploads"}

\* The pages of the model: at most ImageElements selectors match anything.
ImagePages ==
    {f \in [1..Len(Candidates) -> Finds] :
        Cardinality({i \in 1..Len(Candidates) : f[i] # "absent"}) <= ImageElements}

InitImage ==
    /\ RunPostIdle
    /\ MainIdle
    /\ GenIdle
    /\ imgPc = "start"
    /\ imgPage \in ImagePages
    /\ tried = <<>>
    /\ enters = 0
    /\ uploads = 0
    /\ imgResult = "none"

\* keyboard.press("Enter") to move to a new line, and the listing of the
\* buttons, which catches its own exceptions.
ImageStart ==
    /\ imgPc = "start"
    /\ enters' = enters + 1
    /\ imgPc' = "try"
    /\ UNCHANGED <<postVars, mainVars, genVars, imgPage, tried, uploads, imgResult>>

\* ImageTry that goes on to the next selector after an upload.
ImageTryGoesOn ==
    /\ imgPc = "try"
    /\ Len(tried) < Len(Candidates)
    /\ LET i == Len(tried) + 1
       IN /\ tried' = IF imgPage[i] = "absent" THEN Append(tried, [strategy |-> Candidates[i], acted |-> FALSE])
                                                ELSE Append(tried, [strategy |-> Candidates[i], acted |-> TRUE])
          /\ IF imgPage[i] = "uploads"
             THEN uploads' = uploads + 1 /\ enters' = enters + 1
             ELSE UNCHANGED <<uploads, enters>>
    /\ UNCHANGED <<postVars, mainVars, genVars, imgPage, imgPc, imgResult>>

\* The next selector of the list: when the page has nothing for it the loop
\* goes on; when acting on the element raises, the exception is caught and
\* the loop goes on; when the upload works, Enter is pressed and True
\* returned.
ImageTry ==
    /\ imgPc = "try"
    /\ Len(tried) < Len(Candidates)
    /\ LET i == Len(tried) + 1
       IN /\ tried' = IF imgPage[i] = "absent" THEN Append(tried, [strategy |-> Candidates[i], acted |-> FALSE])
                                                ELSE Append(tried, [strategy |-> Candidates[i], acted |-> TRUE])
          /\ IF imgPage[i] = "uploads"
             THEN /\ uploads' = uploads + 1
                  /\ enters' = enters + 1
                  /\ imgResult' = "true"
                  /\ imgPc' = "returned"
             ELSE UNCHANGED <<uploads, enters, imgResult, imgPc>>
    /\ UNCHANGED <<postVars, mainVars, genVars, imgPage>>

\* After the last selector: the screenshot img_failed_..., return False.
ImageGiveUp ==
    /\ imgPc = "try"
    /\ Len(tried) = Len(Candidates)
    /\ imgResult' = "false"
    /\ imgPc' = "returned"
    /\ UNCHANGED <<postVars, mainVars, genVars, imgPage, tried, enters, uploads>>

NextImage ==
    \/ ImageStart
    \/ ImageTry
    \/ ImageGiveUp

SpecImage == InitImage /\ [][NextImage]_vars

(***************************************************************************)
(* Properties.                                                             *)
(***************************************************************************)
LoginPcs == {"login_start", "login_email", "login_password", "login_submit", "login_confirm"}

\* _publish returned a value (it did not raise).
PublishReturned == pubResult \in {"true", "false"}

\* The URL test of the final verdict.
OnEditor(u) == HasPublish(u) \/ HasNotesNew(u) \/ EndsWithEdit(u)

\* C1: when _publish returns with no proof response recorded, it returns
\* failure exactly when the final URL contains "/publish/" or "/notes/new"
\* or ends with "/edit", and success for any other URL.
C1_UrlVerdict ==
    (PublishReturned /\ published_via_api = 0)
        => (pubResult = "false" <=> OnEditor(url))

\* C1 witness: no proof, both buttons clicked, the URL still on the settings
\* page after the final wait, and the verdict is failure.
C1_Witness ==
    /\ pubResult = "false"
    /\ published_via_api = 0
    /\ url = SettingsUrl
    /\ ~LeftEditor(url)
    /\ publish_button = "clicked"
    /\ final_button = "clicked"

\* C2: a proof recorded before the final confirm click is never followed by
\* a failure verdict nor by the URL heuristic; once the final confirm step
\* has run, _publish returns success (it does not raise either).
C2_ProofBeforeFinalClick ==
    proofAt \in {"settings", "before_final"}
        => /\ pubResult # "false"
           /\ pc \notin {"pub_wait", "pub_verdict"}
           /\ (pc \in {"finally", "done"} => pubResult \in {"true", "raised"})
           /\ (pubResult = "raised" => final_button = "none")

\* C2 witness: proof recorded between the two checks, final button clicked,
\* URL still on the settings page, verdict success.
C2_Witness ==
    /\ proofAt = "before_final"
    /\ final_button = "clicked"
    /\ HasPublish(url)
    /\ pubResult = "true"
    /\ result = "true"

\* C3 (as claimed): a proof recorded at any moment while the observer is
\* attached makes the verdict of _publish success.
C3_ProofAnyMoment ==
    (proofAt # "none" /\ PublishReturned) => pubResult = "true"

\* C4 (as claimed): _save_as_draft returns success exactly when the draft
\* affordance was found and the click on it succeeded.
C4_DraftIffClicked ==
    draftResult # "none" => (draftResult = "true" <=> draft_button = "clicked")

\* C5: with as_draft the publish procedure is never started, the observer
\* is never attached, no response is ever recorded, and the verdict of the
\* draft step is success when the affordance was located and clicked and
\* failure when it was not located, whatever the responses and the URL.
C5_DraftOnly ==
    as_draft
        => /\ ~observer
           /\ "publish" \notin started
           /\ published_via_api = 0 /\ proofAt = "none"
           /\ pubResult = "none"
           /\ publish_button = "none" /\ final_button = "none"
           /\ (draftResult # "none"
                 => /\ result = draftResult
                    /\ (draft_button = "clicked" => draftResult = "true")
                    /\ (draft_button = "missing" => draftResult = "false"))

\* C5 witness: a draft run in which a response arrived and the affordance
\* was located and clicked.
C5_Witness ==
    /\ as_draft
    /\ netCount > 0
    /\ draft_button = "clicked"
    /\ draftResult = "true"
    /\ pc = "done"

\* C6: a saved session found valid (no login affordance on the site root)
\* means login is never invoked: no navigation to the login URL, no
\* credential field filled, the state file as saved, and post_article
\* invoked straight away.
C6_SessionReuse ==
    sessVerify = "valid"
        => /\ loginCalls = 0 /\ login_success = "none"
           /\ pc \notin LoginPcs
           /\ NOTE_LOGIN_URL \notin navs
           /\ filled = {}
           /\ AUTH_STATE_FILE = "saved" /\ fileWrites = 0
           /\ postCalls = 1

\* C6 witness: a run that reused the session and got through content entry.
C6_Witness ==
    /\ sessVerify = "valid"
    /\ title_set
    /\ started # {}
    /\ pc = "done"

\* C7 (as claimed): every run that reaches content entry has written the
\* state file during that run.
C7_AlwaysWritten ==
    postCalls > 0 => fileWrites >= 1

\* C7 (amended): a login that returns true has written the state file; a
\* run that reaches content entry has a state file, written in this run
\* when login ran, and the saved one, unwritten, when the session was reused.
C7_SessionArtifact ==
    /\ login_success = "true" => (AUTH_STATE_FILE = "fresh" /\ fileWrites = 1)
    /\ postCalls > 0
         => /\ AUTH_STATE_FILE # "none"
            /\ (loginCalls > 0 => (login_success = "true" /\ AUTH_STATE_FILE = "fresh"))
            /\ (loginCalls = 0 => (sessVerify = "valid" /\ AUTH_STATE_FILE = "saved"
                                     /\ fileWrites = 0))

\* C7 witness: content entry reached after a login that wrote the file.
C7_Witness ==
    /\ postCalls > 0
    /\ title_set
    /\ loginCalls = 1
    /\ AUTH_STATE_FILE = "fresh"
    /\ fileWrites = 1

\* C8: a saved session found invalid: the state file is deleted before
\* login starts, login runs in the same run, and content entry is reached
\* only with a freshly written file, never with the stale one.
C8_StaleDiscarded ==
    sessVerify = "invalid"
        => /\ loginCalls = 1
           /\ AUTH_STATE_FILE # "saved"
           /\ (pc \in LoginPcs => AUTH_STATE_FILE = "none")
           /\ (postCalls > 0 => AUTH_STATE_FILE = "fresh")

\* C8 witness: a run that found the session invalid, logged in again and
\* reached content entry.
C8_Witness ==
    /\ sessVerify = "invalid"
    /\ login_success = "true"
    /\ postCalls = 1
    /\ title_set

\* C9: when login returned false, run_post returns failure and
\* post_article is never invoked: no editor navigation, no title or body
\* input, no draft or publish step.
C9_LoginFailedAborts ==
    login_success = "false"
        => /\ result = "false"
           /\ pc \in {"finally", "done"}
           /\ postCalls = 0
           /\ NOTE_NEW_POST_URL \notin navs
           /\ ~title_set /\ body_input = "none" /\ typed = <<>> /\ tagsInline = 0
           /\ started = {} /\ draftResult = "none" /\ pubResult = "none"

\* C9 witness: a failed re-login after an invalid saved session.
C9_Witness ==
    /\ login_success = "false"
    /\ sessVerify = "invalid"
    /\ filled = {"email", "password"}
    /\ pc = "done"

\* Paragraph i of segment s has been handled by the typing routine: a
\* paragraph that is not a marker has its Enter in the log, and its text
\* when it has any.
ParagraphTyped(s, i) ==
    LET p == Paragraphs(BodySegments[s])[i]
    IN  IsMarker(Strip(p))
        \/ /\ \E n \in 1..Len(typed) :
                typed[n] = [k |-> "Enter", seg |-> s, idx |-> i, text |-> <<>>, path |-> 0]
           /\ Len(Strip(p)) > 0 =>
                \E n \in 1..Len(typed) :
                    typed[n] = [k |-> "type", seg |-> s, idx |-> i, text |-> p, path |-> 0]

TypingComplete ==
    /\ seg > Len(BodySegments)
    /\ \A s \in 1..Len(BodySegments) :
         \A i \in 1..Len(Paragraphs(BodySegments[s])) : ParagraphTyped(s, i)

\* C10: _publish or _save_as_draft is started only after the title has
\* been set and every paragraph of every body segment has been typed, and
\* never when the body field was not located.
C10_EntryBeforePublish ==
    started # {} => (title_set /\ body_input = "found" /\ TypingComplete)

\* C10 witness: publish started for a body of two segments.
C10_Witness ==
    /\ "publish" \in started
    /\ Len(BodySegments) = 2
    /\ Len(typed) >= 2

\* C11: when the title field is located neither by a candidate nor by the
\* fallback, or the body field by no candidate and no contenteditable, no
\* paragraph is typed, neither the draft nor the publish procedure starts,
\* run_post is on its way out with a diagnostic screenshot, and the account's
\* verdict is a failure.
C11_NoEditableTarget ==
    (title_input = "missing" \/ body_input = "missing") =>
        /\ typed = <<>>
        /\ started = {}
        /\ pc \in {"except", "finally", "done"}
        /\ ~AccountSuccess(result)
        /\ pc \in {"finally", "done"} =>
              /\ screenshots \cap {"error_exception", "error_no_body_input"} # {}
              /\ result \in {"raised", "false"}

\* C11 witness: run_post has ended after the title field was not located.
C11_Witness ==
    /\ pc = "done"
    /\ title_input = "missing"
    /\ result = "raised"
    /\ "error_exception" \in screenshots

\* The candidates of the list whose first match is visible.
VisibleCandidates == {i \in 1..Len(selectors) : selectors[i] = "visible"}

\* C12: _find_element returns the first match of the earliest candidate of
\* the list that has a match and whose first match is visible, never that of
\* a later or of a hidden one.
C12_FirstVisibleInOrder ==
    /\ (findState = "returned" /\ VisibleCandidates # {}) =>
          /\ handle \in VisibleCandidates
          /\ \A i \in VisibleCandidates : handle <= i
    /\ (findState = "returned" /\ handle > 0) => selectors[handle] = "visible"

\* C12 witness: the call returned the match of a candidate that is not the
\* first of its list, past a hidden one.
C12_Witness ==
    /\ findState = "returned"
    /\ handle > 1
    /\ \E i \in 1..(handle - 1) : selectors[i] = "hidden"

\* C13: _find_element never raises; a candidate without a match, with a
\* hidden first match or whose evaluation throws is passed over, and None is
\* returned only when the loop has gone past the last candidate.
C13_FindNeverRaises ==
    /\ findState # "raised"
    /\ \A i \in 1..Len(selectors) : (i < cursor) => selectors[i] # "visible"
    /\ (findState = "returned" /\ handle = 0) =>
          /\ cursor = Len(selectors) + 1
          /\ VisibleCandidates = {}

\* C13 witness: None returned after a candidate that threw, a hidden one and
\* one without a match.
C13_Witness ==
    /\ findState = "returned"
    /\ handle = 0
    /\ {selectors[i] : i \in 1..Len(selectors)} = {"throws", "hidden", "nomatch"}

\* The "type" events of the log carry no delimiter.
NoDelimiterTyped ==
    \A n \in 1..Len(typed) :
        typed[n].k = "type" => ~Contains(typed[n].text, Delimiter)

\* C14: the delimiter text is never typed, with paid mode on or off and
\* however often the delimiter occurs; with paid mode off the body is typed
\* as a single segment.
C14_DelimiterNeverTyped ==
    /\ NoDelimiterTyped
    /\ ~ENABLE_PAID_ARTICLE => \A n \in 1..Len(typed) : typed[n].seg = 1

\* The two parts of a body that has the delimiter.
FreeText == Split(body, Delimiter)[1]
PaidText == Split(body, Delimiter)[2]

\* Paragraph i of text has been handled as paragraph i of pass s: a marker
\* paragraph left its insertion attempt, any other its Enter, and its text
\* when it has any.
Handled(text, s, i) ==
    LET p == Paragraphs(text)[i]
    IN IF IsMarker(Strip(p))
       THEN \E n \in 1..Len(typed) :
                typed[n].k = "image" /\ typed[n].seg = s /\ typed[n].idx = i
       ELSE /\ \E n \in 1..Len(typed) :
                typed[n] = [k |-> "Enter", seg |-> s, idx |-> i, text |-> <<>>, path |-> 0]
            /\ Len(Strip(p)) > 0 =>
                \E n \in 1..Len(typed) :
                    typed[n] = [k |-> "type", seg |-> s, idx |-> i, text |-> p, path |-> 0]

\* C15: with paid mode on and the delimiter in the body, typing is two
\* passes one after the other: the events of the first pass all come before
\* those of the second, the first pass is the free part, the second the paid
\* part, and the second starts only when the free part has been handled whole.
C15_SegmentsSequential ==
    (ENABLE_PAID_ARTICLE /\ Contains(body, Delimiter)) =>
        /\ \A n \in 1..Len(typed) : typed[n].seg \in {1, 2}
        /\ \A m \in 1..Len(typed) : \A n \in 1..Len(typed) :
              m < n => typed[m].seg <= typed[n].seg
        /\ \A n \in 1..Len(typed) :
              typed[n].k = "type" =>
                 /\ typed[n].idx \in 1..Len(Paragraphs(Split(body, Delimiter)[typed[n].seg]))
                 /\ typed[n].text = Paragraphs(Split(body, Delimiter)[typed[n].seg])[typed[n].idx]
        /\ (\E n \in 1..Len(typed) : typed[n].seg = 2) =>
              \A i \in 1..Len(Paragraphs(FreeText)) : Handled(FreeText, 1, i)
        /\ pc \in {"hashtags", "choose", "draft", "pub_attach"} =>
              \A i \in 1..Len(Paragraphs(PaidText)) : Handled(PaidText, 2, i)

\* C15 witness: both passes have typed text, and the two parts differ.
C15_Witness ==
    /\ ENABLE_PAID_ARTICLE
    /\ Contains(body, Delimiter)
    /\ FreeText # PaidText
    /\ \E m \in 1..Len(typed) : typed[m].k = "type" /\ typed[m].seg = 1
    /\ \E n \in 1..Len(typed) : typed[n].k = "type" /\ typed[n].seg = 2

\* The typing routine has gone through every segment.
TypingOver == pc \in {"hashtags", "choose", "draft", "pub_attach"}

\* The insertion attempts of the log, in order.
ImageEvents == SelectSeq(typed, LAMBDA e : e.k = "image")

\* C16: when the N markers of the body were resolved to N distinct paths,
\* typing makes exactly N insertion attempts, the k-th with the path of the
\* keyword of the k-th marker.
C16_OneInsertionPerMarker ==
    (TypingOver /\ Cardinality(DOMAIN article_images) = Len(Keywords(body))) =>
        /\ Len(ImageEvents) = Len(Keywords(body))
        /\ \A k \in 1..Len(ImageEvents) :
              ImageEvents[k].path = article_images[Keywords(body)[k]]

\* The distinct keywords of the markers of the body.
DistinctKeywords == {Keywords(body)[i] : i \in 1..Len(Keywords(body))}

\* fetch_images_for_article has returned.
FetchReturned == pc \in {"typing", "hashtags", "choose", "draft", "pub_attach"}

\* C17 as stated: fetch_image is called once per distinct keyword, and all
\* calls are over before the first keystroke.
C17_OncePerKeyword ==
    /\ FetchReturned => Len(fetched) = Cardinality(DistinctKeywords)
    /\ typed # <<>> => FetchReturned

\* C17: fetch_image is called once per marker occurrence, in document order,
\* occurrence i for the file of index i, a repeated keyword once per
\* occurrence; the dict keeps for each keyword the path of its last
\* occurrence; and every call is over before the first keystroke.
C17_OncePerOccurrence ==
    /\ FetchReturned =>
          /\ Len(fetched) = Len(Keywords(body))
          /\ \A i \in 1..Len(fetched) :
                fetched[i] = [keyword |-> Keywords(body)[i], path |-> i]
          /\ DOMAIN article_images = DistinctKeywords
          /\ \A kw \in DistinctKeywords :
                /\ Keywords(body)[article_images[kw]] = kw
                /\ \A i \in 1..Len(fetched) :
                      fetched[i].keyword = kw => i <= article_images[kw]
    /\ typed # <<>> => FetchReturned
    /\ pc = "fetch_images" => fetched = <<>> /\ typed = <<>>

\* C17 witness: a keyword that occurs twice was fetched twice before typing.
C17_Witness ==
    /\ typed # <<>>
    /\ Len(fetched) = 2
    /\ fetched[1].keyword = fetched[2].keyword

\* A call of fetch_image has raised.
FetchRaised == \E i \in 1..Len(fetched) : fetched[i].path = 0

\* C18: a failing image request does not abort the attempt: run_post does
\* not raise, and it ends with the draft or publish procedure started.
C18_FetchFailureNonFatal ==
    FetchRaised =>
        /\ pc # "except"
        /\ result # "raised"
        /\ pc = "done" => started # {}

\* An insertion attempt of the log failed on every strategy.
InsertionFailed ==
    \E n \in 1..Len(typed) : typed[n].k = "image" /\ typed[n].text = <<"failed">>

\* C19: an insertion that fails on every strategy raises nothing and leaves
\* nothing after it in the log for its paragraph; typing goes on to the
\* paragraphs after it, and the draft or publish procedure is started with
\* every paragraph handled.
C19_InsertionFailureSkipped ==
    InsertionFailed =>
        /\ pc \in {"typing", "hashtags", "choose", "draft", "pub_attach"}
        /\ result = "none"
        /\ \A n \in 1..Len(typed) :
              (typed[n].k = "image" /\ typed[n].text = <<"failed">> /\ n < Len(typed)) =>
                  <<typed[n+1].seg, typed[n+1].idx>> # <<typed[n].seg, typed[n].idx>>
        /\ pc \in {"draft", "pub_attach"} =>
              /\ started # {}
              /\ \A s \in 1..Len(BodySegments) :
                    \A i \in 1..Len(Paragraphs(BodySegments[s])) :
                        Handled(BodySegments[s], s, i)

\* C19 witness: the draft or publish procedure has started after a failed
\* insertion that was followed by a typed paragraph.
C19_Witness ==
    /\ started # {}
    /\ \E n \in 1..Len(typed) :
          /\ typed[n].k = "image"
          /\ typed[n].text = <<"failed">>
          /\ \E m \in (n+1)..Len(typed) : typed[m].k = "type"

\* C20: the hashtags are entered at most once: the settings stage enters
\* tags only when the inline entry entered none.
C20_TagsEnteredOnce ==
    tagsSettings > 0 => tagsInline = 0

MainCompleted == mainPc = "exited" /\ article = "generated"

\* C22: run_post is invoked for the accounts in list order, one at a time,
\* and whatever the verdicts and exceptions, main exits only after the
\* invocation for the last account.
C22_LoopNeverStopped ==
    /\ Len(runCalls) <= Len(accounts)
    /\ \A i \in 1..Len(runCalls) : runCalls[i].account = accounts[i]
    /\ Len(runCalls) + 1 = acc \/ Len(runCalls) = acc
    /\ mainPc \in {"loop", "call"} => Len(runCalls) + 1 = acc
    /\ MainCompleted =>
          /\ Len(runCalls) = Len(accounts)
          /\ acc = Len(accounts) + 1

\* C22 witness: main has exited after two accounts, the first of which
\* raised and the second of which returned False.
C22_Witness ==
    /\ MainCompleted
    /\ Len(runCalls) = 2
    /\ runCalls[1].outcome = "raised"
    /\ runCalls[2].outcome = "false"

\* The records of the history for the account at position i of the loop.
RecordsOf(i) == {n \in 1..Len(history) : history[n].at = i}

\* C23: every account whose turn is over has exactly one record in the
\* history, whether run_post returned True, returned False or raised.
C23_OneRecordPerAttempt ==
    \A i \in 1..Len(runCalls) : (i < acc) => Cardinality(RecordsOf(i)) = 1

\* The verdict main keeps for invocation i of run_post.
VerdictOf(i) == runCalls[i].outcome = "true"

\* C24: the notification step raises nothing and changes no verdict: after
\* it the verdicts are those of the invocations, and main exits with status 0
\* exactly when every account's verdict was success.
C24_NotifyNeverFails ==
    /\ notified # <<>> =>
          /\ mainPc \in {"exit", "exited"}
          /\ Len(results) = Len(runCalls)
          /\ \A i \in 1..Len(results) : results[i] = VerdictOf(i)
    /\ MainCompleted =>
          /\ exitStatus \in {0, 1}
          /\ (exitStatus = 0) <=> (\A i \in 1..Len(runCalls) : VerdictOf(i))

\* C24 witness: main exited with status 0 although the Discord request
\* raised and the LINE request was answered with an error status.
C24_Witness ==
    /\ MainCompleted
    /\ exitStatus = 0
    /\ notified = <<"exception", "http_error">>

\* C25: when generate_article raises, main exits with status 1 with exactly
\* one record, a failure, in the history, and run_post is invoked for no
\* account.
C25_GenerationFailure ==
    article = "failed" =>
        /\ mainPc = "exited"
        /\ exitStatus = 1
        /\ Len(history) = 1
        /\ ~history[1].success
        /\ runCalls = <<>>
        /\ results = <<>>

\* C25 witness: generation failed in a run with two accounts.
C25_Witness ==
    /\ article = "failed"
    /\ mainPc = "exited"
    /\ Len(accounts) = 2

\* C27: the state file paths of the invocations are pairwise distinct, the
\* path of an invocation is the one of its account (auth_state_i.json for
\* index i, auth_state.json for the single account), and between two turns
\* of the loop note_poster.AUTH_STATE_FILE is back at auth_state.json.
C27_PrivateStateFile ==
    /\ \A i \in 1..Len(runCalls) : \A j \in 1..Len(runCalls) :
          i # j => runCalls[i].file # runCalls[j].file
    /\ \A i \in 1..Len(runCalls) : runCalls[i].file = runCalls[i].account
    /\ mainPc \in {"loop", "record", "exit", "exited"} => np_AUTH_STATE_FILE = 0

\* C27 witness: two accounts have had their turn, each with its own file.
C27_Witness ==
    /\ MainCompleted
    /\ Len(runCalls) = 2
    /\ runCalls[1].file = 1
    /\ runCalls[2].file = 2

\* C26: under the assumption that every wait completes or times out, every
\* run of run_post ends, with a boolean verdict or a raised exception.
C26_RunPostTerminates ==
    <>(pc = "done" /\ result \in {"true", "false", "raised"})

\* C26 witness: a run is over in which the publish-settings click failed on
\* each of its ClickAttempts attempts.
C26_Witness ==
    /\ pc = "done"
    /\ publish_button = "clickfailed"
    /\ result \in {"true", "false"}

\* The positions of _publish after the registration of the observer.
InPublish ==
    pc \in {"pub_settings", "pub_check1", "pub_tags", "pub_paid", "pub_modal", "pub_final",
            "pub_check2", "pub_wait", "pub_verdict"}

\* C28: the observer is registered before the publish-settings button is
\* located or clicked and stays registered while _publish runs, so that a
\* proof response received at any position of _publish is recorded.
C28_ObserverBeforeClicks ==
    /\ InPublish => observer
    /\ pc = "pub_attach" => publish_button = "none" /\ final_button = "none"
    /\ (publish_button # "none" \/ final_button # "none") =>
          (observer \/ pubResult # "none")

\* C28 witness: a proof response was recorded with the publish-settings
\* button clicked and the first check still to come.
C28_Witness ==
    /\ pc = "pub_check1"
    /\ observer
    /\ publish_button = "clicked"
    /\ published_via_api > 0

\* C29: when a proof response has been recorded by the time of the first
\* check, _publish returns True there: no settings-stage tag entry, no paid
\* setup, no modal dismissal and no final confirm click follows.
C29_ReturnsAtFirstCheck ==
    proofAt = "settings" =>
        /\ pc \in {"pub_settings", "pub_check1", "finally", "done"}
        /\ tagsSettings = 0
        /\ paid = "none"
        /\ final_button = "none"
        /\ pc \in {"finally", "done"} => pubResult = "true" /\ result = "true"

\* C29 witness: run_post is over after _publish returned at the first check
\* with the publish-settings button clicked.
C29_Witness ==
    /\ pc = "done"
    /\ proofAt = "settings"
    /\ publish_button = "clicked"
    /\ pubResult = "true"

\* The events of the log for paragraph i of pass s, in order.
EventsAt(s, i) == SelectSeq(typed, LAMBDA e : e.seg = s /\ e.idx = i)

\* The kinds of the events of a log.
Kinds(ev) == [n \in 1..Len(ev) |-> ev[n].k]

\* The loop of _type_paragraphs is past paragraph i of pass s.
Past(s, i) == seg > s \/ (seg = s /\ para > i)

\* C30: a paragraph that is not a marker leaves exactly one Enter, after its
\* text when it has any and alone when it is empty or blank; a marker
\* paragraph leaves no typed text and no Enter besides those of its
\* insertion (one before the attempt, one after it when it worked).
C30_OneEnterPerParagraph ==
    \A s \in 1..Len(BodySegments) : \A i \in 1..Len(Paragraphs(BodySegments[s])) :
        LET p == Paragraphs(BodySegments[s])[i]
            ev == EventsAt(s, i)
        IN IF ~Past(s, i) THEN ev = <<>>
           ELSE IF IsMarker(Strip(p))
                THEN \/ ev = <<>> /\ KeywordOf(Strip(p)[1]) \notin DOMAIN article_images
                     \/ Kinds(ev) = <<"Enter", "image">> /\ ev[2].text = <<"failed">>
                     \/ Kinds(ev) = <<"Enter", "image", "Enter">> /\ ev[2].text # <<"failed">>
           ELSE IF Len(Strip(p)) > 0
                THEN Kinds(ev) = <<"type", "Enter">> /\ ev[1].text = p
           ELSE Kinds(ev) = <<"Enter">>

\* C30 witness: the loop is past a blank paragraph that is not empty and past
\* a marker paragraph whose image was inserted.
C30_Witness ==
    /\ \E s \in 1..Len(BodySegments) : \E i \in 1..Len(Paragraphs(BodySegments[s])) :
          /\ Past(s, i)
          /\ Paragraphs(BodySegments[s])[i] # <<>>
          /\ Strip(Paragraphs(BodySegments[s])[i]) = <<>>
          /\ Kinds(EventsAt(s, i)) = <<"Enter">>
    /\ \E s \in 1..Len(BodySegments) : \E i \in 1..Len(Paragraphs(BodySegments[s])) :
          /\ Past(s, i)
          /\ IsMarker(Strip(Paragraphs(BodySegments[s])[i]))
          /\ Kinds(EventsAt(s, i)) = <<"Enter", "image", "Enter">>

\* C33: with paid mode on, once the identity-verification modal was
\* dismissed after the paid toggle, the price is not set, nothing is raised,
\* and _publish goes on to locate the final confirm button.
C33_ModalSkipsPrice ==
    /\ \A price \in BOOLEAN : SetPaidArticle(TRUE, TRUE, price) = "modal_dismissed"
    /\ paid = "modal_dismissed" =>
          /\ ENABLE_PAID_ARTICLE
          /\ pc \in {"pub_modal", "pub_final", "pub_check2", "pub_wait", "pub_verdict",
                     "finally", "done"}
          /\ pubResult # "raised"
          /\ pc \notin {"pub_modal", "pub_final"} => final_button # "none"

\* C33 witness: the final confirm button was clicked in a run whose modal
\* was dismissed.
C33_Witness ==
    /\ paid = "modal_dismissed"
    /\ final_button = "clicked"
    /\ pc = "done"

\* C34: _publish returns True without a proof response only when the
\* publish-settings button or the final confirm button was located and
\* clicked.
C34_SuccessNeedsClick ==
    (pubResult = "true" /\ published_via_api = 0) =>
        (publish_button = "clicked" \/ final_button = "clicked")

\* C35: the state file is written only by a login that ends on a URL
\* without "login": a login that returned False or raised wrote nothing, and
\* after an invalid saved session whose re-login did not succeed there is no
\* state file.
C35_WrittenOnlyOnSuccess ==
    /\ fileWrites \in {0, 1}
    /\ fileWrites = 1 <=> login_success = "true"
    /\ AUTH_STATE_FILE = "fresh" <=> login_success = "true"
    /\ login_success = "false" => fileWrites = 0
    /\ (sessVerify = "invalid" /\ login_success # "true") => AUTH_STATE_FILE = "none"

\* C35 witness: the run is over after a re-login that ended on the login
\* page, and there is no state file.
C35_Witness ==
    /\ sessVerify = "invalid"
    /\ login_success = "false"
    /\ HasLogin(url)
    /\ AUTH_STATE_FILE = "none"
    /\ pc = "done"

\* C39: the observer is on the page only while _publish runs: once _publish
\* has returned or raised, on whichever path, it has been removed.
C39_ObserverRemoved ==
    /\ observer => InPublish
    /\ pubResult # "none" => ~observer
    /\ pc \in {"except", "finally", "done"} => ~observer

\* C39 witness: _publish raised after the observer had recorded a response.
C39_Witness ==
    /\ pubResult = "raised"
    /\ published_via_api > 0
    /\ ~observer

\* C36: no marker is typed as text: no "type" event carries a marker.
C36_MarkerNeverTyped ==
    \A n \in 1..Len(typed) :
        typed[n].k = "type" =>
            \A j \in 1..Len(typed[n].text) : typed[n].text[j] \notin Markers

\* The pieces of the body between delimiters.
BodyParts == Split(body, Delimiter)

\* C37: with paid mode on and more than one delimiter in the body, the
\* typing passes are the text before the first delimiter and the text
\* between the first and the second: every event belongs to one of the two,
\* a typed text is the paragraph of its pass at its index, no paragraph is
\* typed twice, and nothing of the text after the second delimiter is typed.
C37_OnlyFirstTwoParts ==
    (ENABLE_PAID_ARTICLE /\ Len(BodyParts) > 2) =>
        /\ \A n \in 1..Len(typed) : typed[n].seg \in {1, 2}
        /\ BodySegments = <<BodyParts[1], BodyParts[2]>>
        /\ \A n \in 1..Len(typed) :
              typed[n].k = "type" =>
                 /\ typed[n].idx \in 1..Len(Paragraphs(BodyParts[typed[n].seg]))
                 /\ typed[n].text = Paragraphs(BodyParts[typed[n].seg])[typed[n].idx]
        /\ \A m \in 1..Len(typed) : \A n \in 1..Len(typed) :
              (typed[m].k = "type" /\ typed[n].k = "type" /\ m # n) =>
                  <<typed[m].seg, typed[m].idx>> # <<typed[n].seg, typed[n].idx>>
        /\ TypingOver => seg = 3

\* C37 witness: typing is over on a body with two delimiters and text after
\* the second, with text of the first part typed.
C37_Witness ==
    /\ ENABLE_PAID_ARTICLE
    /\ Len(BodyParts) = 3
    /\ BodyParts[3] # <<>>
    /\ TypingOver
    /\ \E n \in 1..Len(typed) : typed[n].k = "type" /\ typed[n].seg = 1

\* The account loop is between two attempts, or past the last one.
BetweenAttempts ==
    \/ mainPc \in {"record", "exit"}
    \/ mainPc \in {"loop", "exited"} /\ acc > 1

\* C38: during an attempt the environment holds the account's credentials;
\* after it, whether run_post returned or raised, NOTE_EMAIL, NOTE_PASSWORD
\* and note_poster.AUTH_STATE_FILE hold the values they had before it, a
\* variable that was unset being unset again.
C38_EnvironmentRestored ==
    /\ mainPc \in {"call", "except", "finally"} =>
          environ = [k \in EnvKeys |-> Credential(accounts[acc])]
    /\ BetweenAttempts =>
          /\ environ["NOTE_EMAIL"] = orig_email
          /\ environ["NOTE_PASSWORD"] = orig_pass
          /\ np_AUTH_STATE_FILE = orig_auth_file
          /\ np_AUTH_STATE_FILE = 0

\* C38 witness: after an attempt of account 2 that raised, NOTE_EMAIL is
\* unset again and NOTE_PASSWORD has its value from before.
C38_Witness ==
    /\ mainPc = "record"
    /\ acc = 2
    /\ runCalls[Len(runCalls)].outcome = "raised"
    /\ environ["NOTE_EMAIL"] = 0
    /\ environ["NOTE_PASSWORD"] = BaseValue

\* generate_article is over.
GenOver == genPc \in {"returned", "raised"}

\* C40: at most MAX_RETRIES requests in JSON mode, with one wait between
\* two of them; a request is followed by a wait and another request only
\* when it hit the rate limit; any other
\* error ends generate_article at once, by an exception or, when JSON mode is
\* not supported, by the one request of the text-mode fallback; the third
\* rate-limit error in a row raises.
C40_RetryOnlyOnRateLimit ==
    /\ Len(requests) <= MAX_RETRIES
    /\ textRequests <= 1
    /\ \A i \in 1..Len(requests) :
          i < Len(requests) => requests[i].kind = "rate_limit"
    /\ \A i \in 1..Len(requests) :
          requests[i].kind = "other" => (i = Len(requests) /\ genPc = "raised")
    /\ \A i \in 1..Len(requests) :
          requests[i].kind = "json_mode" =>
              (i = Len(requests) /\ genPc \in {"fallback", "returned", "raised"}
                 /\ (GenOver => textRequests = 1))
    /\ (Len(requests) = MAX_RETRIES /\ requests[MAX_RETRIES].kind = "rate_limit") =>
          genPc = "raised"
    /\ genPc \in {"parse", "fallback", "returned", "raised"} =>
          (requests = <<>> \/ slept = Len(requests) - 1)
    /\ genPc = "request" => slept = Len(requests)

\* C32: _add_hashtags enters the first TagLimit tags of the list at most,
\* in list order, each by a fill followed by Enter, when a tag field is
\* visible; when none is, it enters nothing, nothing is raised, and the flow
\* goes on to the draft or publish step.
C32_FirstFiveInOrder ==
    /\ tagsInline <= TagLimit
    /\ tagLog = TagEntry(tagsInline)
    /\ tag_input = "none" => tagsInline = 0
    /\ tag_input = "found" =>
          /\ hashtags > 0
          /\ pc \in {"choose", "draft", "pub_attach"} => tagsInline = Min(hashtags, TagLimit)
    /\ tag_input = "missing" =>
          /\ tagsInline = 0
          /\ pc \in {"choose", "draft", "pub_attach"}
          /\ result = "none"
          /\ pc \in {"draft", "pub_attach"} => started # {}

\* C32 witness: a list of more than TagLimit tags, the first TagLimit of
\* them entered, and the draft or publish procedure started.
C32_Witness ==
    /\ hashtags > TagLimit
    /\ tag_input = "found"
    /\ tagsInline = TagLimit
    /\ Len(tagLog) = 2 * TagLimit
    /\ started # {}

\* The rank of a strategy in the order of the code.
StrategyRank(st) == IF st = "input" THEN 1 ELSE IF st = "plus" THEN 2 ELSE 3

\* C31: _insert_image goes through the hidden file input, the add-block
\* button and the toolbar image button in that order; the first upload that
\* works ends it: nothing is tried after it, one Enter follows the upload
\* (besides the one at the start), and True is returned; False is returned
\* only when nothing worked.
C31_FirstSuccessEnds ==
    /\ \A i \in 1..Len(tried) : tried[i].strategy = Candidates[i]
    /\ \A i \in 1..Len(tried) : \A j \in 1..Len(tried) :
          i < j => StrategyRank(tried[i].strategy) <= StrategyRank(tried[j].strategy)
    /\ uploads <= 1
    /\ \A i \in 1..Len(tried) :
          imgPage[i] = "uploads" =>
              /\ i = Len(tried)
              /\ uploads = 1
              /\ enters = 2
              /\ imgResult = "true"
              /\ imgPc = "returned"
    /\ imgResult = "true" => (tried # <<>> /\ imgPage[Len(tried)] = "uploads")
    /\ imgResult = "false" =>
          /\ Len(tried) = Len(Candidates)
          /\ uploads = 0
          /\ enters = 1

\* C31 witness: the add-block button uploaded the image after the hidden
\* file input had raised, and a toolbar button that would work was not tried.
C31_Witness ==
    /\ imgResult = "true"
    /\ tried[Len(tried)].strategy = "plus"
    /\ \E i \in 1..Len(tried) : tried[i].strategy = "input" /\ imgPage[i] = "raises"
    /\ \E j \in (Len(tried) + 1)..Len(Candidates) :
          Candidates[j] = "toolbar" /\ imgPage[j] = "uploads"

====
